---- MODULE Spec2Model ----
(***************************************************************************)
(* A model of the Caesar front end and tree-walking interpreter.           *)
(*                                                                         *)
(*   Spec        the front end: Lexer::tokenize run on a source, then      *)
(*               Parser::parse run on the returned token vector.           *)
(*   SpecInterp  the interpreter: Interpreter::interpret run on a Program. *)
(*   SpecMain    the driver: main run on a source with its options.        *)
(*   SpecPrint   the front end run on a source and then on the text that   *)
(*               toString prints for the Program.                          *)
(*                                                                         *)
(* A std::string is a sequence of atoms.  An atom is a TLA+ string that    *)
(* stands for one character (" ", "\n", "#", "(", ...) or for one maximal  *)
(* run of letters/digits/underscores (a word such as "def" or "x", a digit *)
(* run such as "10").  The column of a position advances by Len(atom).     *)
(***************************************************************************)
EXTENDS Integers, Sequences, FiniteSets, TLC

VARIABLES
    lexer,      \* the Lexer object: source_, current_, position_, at_line_start_, indent_stack_
    tokens,     \* the token vector built (and then returned) by Lexer::tokenize
    pc,         \* where the run is
    program,    \* the Program returned by Parser::parse (or the one handed to the interpreter)
    interp,     \* the Interpreter object and the heap of Environment objects
    driver      \* main: its options and its exit code; in SpecPrint the first Program

vars == <<lexer, tokens, pc, program, interp, driver>>

(***************************************************************************)
(* Bounds of the model.                                                    *)
(***************************************************************************)
MaxLines == 3       \* lines of a generated lexer source
MaxStmts == 5       \* lines of a generated block-structured source

(***************************************************************************)
(* Small helpers on sequences.                                             *)
(***************************************************************************)
Last(s) == s[Len(s)]
Front(s) == SubSeq(s, 1, Len(s) - 1)
Spaces(n) == [i \in 1..n |-> " "]

RECURSIVE CountType(_, _)
CountType(ts, ty) ==
    IF ts = <<>> THEN 0
    ELSE (IF Head(ts).type = ty THEN 1 ELSE 0) + CountType(Tail(ts), ty)

(***************************************************************************)
(* Character classes (lexer.cpp) on atoms.                                 *)
(***************************************************************************)
DigitAtoms == {"0", "1", "2", "3", "4", "5", "6", "7", "8", "9", "10"}

PunctAtoms == {"+", "-", "*", "/", "=", "!", "<", ">", "%", "(", ")", "[", "]",
               "{", "}", ",", ":", ";", ".", "#", "\"", "'", "\\", "@", "$", "?"}

SpaceAtoms == {" ", "\t", "\r"}

isDigit(c) == c \in DigitAtoms

isAlpha(c) == c \notin DigitAtoms \cup PunctAtoms \cup SpaceAtoms \cup {"\n", "\\0"}

isAlphaNumeric(c) == isAlpha(c) \/ isDigit(c)

\* std::isspace on the characters a source can hold
isspace(c) == c \in SpaceAtoms \cup {"\n"}

keywords_ ==
    [w \in {"if", "elif", "else", "while", "for", "in", "def", "class", "return",
            "break", "continue", "pass", "and", "or", "not", "is", "None",
            "True", "False"} |->
        CASE w = "if" -> "IF"
          [] w = "elif" -> "ELIF"
          [] w = "else" -> "ELSE"
          [] w = "while" -> "WHILE"
          [] w = "for" -> "FOR"
          [] w = "in" -> "IN"
          [] w = "def" -> "DEF"
          [] w = "class" -> "CLASS"
          [] w = "return" -> "RETURN"
          [] w = "break" -> "BREAK"
          [] w = "continue" -> "CONTINUE"
          [] w = "pass" -> "PASS"
          [] w = "and" -> "AND"
          [] w = "or" -> "OR"
          [] w = "not" -> "NOT"
          [] w = "is" -> "IS"
          [] w = "None" -> "NONE"
          [] w = "True" -> "BOOLEAN"
          [] w = "False" -> "BOOLEAN"]

(***************************************************************************)
(* The Lexer object.  Every operator below takes the object L and returns  *)
(* the object after the call (with the call's result where it has one).    *)
(***************************************************************************)
NewLexer(source) ==
    [source_ |-> source, current_ |-> 0, position_ |-> [line |-> 1, column |-> 1],
     at_line_start_ |-> TRUE, indent_stack_ |-> <<0>>]

isAtEnd(L) == L.current_ >= Len(L.source_)

\* "\\0" stands for the NUL character peek returns at the end of the source
peek(L) == IF isAtEnd(L) THEN "\\0" ELSE L.source_[L.current_ + 1]

peekNext(L) ==
    IF L.current_ + 1 >= Len(L.source_) THEN "\\0" ELSE L.source_[L.current_ + 2]

\* advance that starts the columns of a new line at 0
advanceColumnZero(L) ==
    IF isAtEnd(L) THEN L
    ELSE LET c == L.source_[L.current_ + 1] IN
         [L EXCEPT !.current_ = @ + 1,
                   !.position_ = IF c = "\n"
                                 THEN [line |-> @.line + 1, column |-> 0]
                                 ELSE [line |-> @.line, column |-> @.column + Len(c)]]

advance(L) ==
    IF isAtEnd(L) THEN L
    ELSE LET c == L.source_[L.current_ + 1] IN
         [L EXCEPT !.current_ = @ + 1,
                   !.position_ = IF c = "\n"
                                 THEN [line |-> @.line + 1, column |-> 1]
                                 ELSE [line |-> @.line, column |-> @.column + Len(c)]]

makeToken(L, type, value) == [type |-> type, value |-> value, position |-> L.position_]

RECURSIVE skipWhitespace(_)
skipWhitespace(L) ==
    IF ~isAtEnd(L) /\ isspace(peek(L)) /\ peek(L) # "\n"
    THEN skipWhitespace(advance(L))
    ELSE L

RECURSIVE skipComment(_)
skipComment(L) ==
    IF ~isAtEnd(L) /\ peek(L) # "\n" THEN skipComment(advance(L)) ELSE L

\* the loop of handleIndentation that counts the leading spaces and tabs
RECURSIVE countIndent(_, _)
countIndent(L, indent_level) ==
    IF ~isAtEnd(L) /\ (peek(L) = " " \/ peek(L) = "\t")
    THEN countIndent(advance(L), indent_level + (IF peek(L) = " " THEN 1 ELSE 8))
    ELSE [L |-> L, indent_level |-> indent_level]

\* popIndents that also pops a level equal to indent_level
RECURSIVE popIndentsThrough(_, _, _)
popIndentsThrough(L, indent_level, toks) ==
    IF L.indent_stack_ # <<>> /\ Last(L.indent_stack_) >= indent_level
    THEN LET L1 == [L EXCEPT !.indent_stack_ = Front(@)]
         IN popIndentsThrough(L1, indent_level, Append(toks, makeToken(L1, "DEDENT", <<>>)))
    ELSE [L |-> L, tokens |-> toks]

\* the loop of handleIndentation that pops the levels above indent_level
RECURSIVE popIndents(_, _, _)
popIndents(L, indent_level, toks) ==
    IF L.indent_stack_ # <<>> /\ Last(L.indent_stack_) > indent_level
    THEN LET L1 == [L EXCEPT !.indent_stack_ = Front(@)]
         IN popIndents(L1, indent_level, Append(toks, makeToken(L1, "DEDENT", <<>>)))
    ELSE [L |-> L, tokens |-> toks]

\* handleIndentation that treats blank lines and comment lines as lines of code
handleIndentationEveryLine(L) ==
    LET c == countIndent(L, 0)
        L1 == c.L
        indent_level == c.indent_level
        current_indent == Last(L1.indent_stack_)
    IN  IF indent_level > current_indent
        THEN LET L2 == [L1 EXCEPT !.indent_stack_ = Append(@, indent_level)]
             IN [L |-> L2, tokens |-> <<makeToken(L2, "INDENT", <<>>)>>, threw |-> FALSE]
        ELSE IF indent_level < current_indent
        THEN LET p == popIndents(L1, indent_level, <<>>)
             IN [L |-> p.L, tokens |-> p.tokens,
                 threw |-> p.L.indent_stack_ = <<>>
                              \/ Last(p.L.indent_stack_) # indent_level]
        ELSE [L |-> L1, tokens |-> <<>>, threw |-> FALSE]

\* handleIndentation without the test that follows the pops
handleIndentationUnmatched(L) ==
    LET c == countIndent(L, 0)
        L1 == c.L
        indent_level == c.indent_level
    IN  IF isAtEnd(L1) \/ peek(L1) = "\n" \/ peek(L1) = "#"
        THEN [L |-> L1, tokens |-> <<>>, threw |-> FALSE]
        ELSE LET current_indent == Last(L1.indent_stack_) IN
             IF indent_level > current_indent
             THEN LET L2 == [L1 EXCEPT !.indent_stack_ = Append(@, indent_level)]
                  IN [L |-> L2, tokens |-> <<makeToken(L2, "INDENT", <<>>)>>, threw |-> FALSE]
             ELSE IF indent_level < current_indent
             THEN LET p == popIndents(L1, indent_level, <<>>)
                  IN [L |-> p.L, tokens |-> p.tokens, threw |-> FALSE]
             ELSE [L |-> L1, tokens |-> <<>>, threw |-> FALSE]

\* returns the object, the vector of INDENT/DEDENT tokens, and whether error() threw
handleIndentation(L) ==
    LET c == countIndent(L, 0)
        L1 == c.L
        indent_level == c.indent_level
    IN  IF isAtEnd(L1) \/ peek(L1) = "\n" \/ peek(L1) = "#"
        THEN [L |-> L1, tokens |-> <<>>, threw |-> FALSE]
        ELSE LET current_indent == Last(L1.indent_stack_) IN
             IF indent_level > current_indent
             THEN LET L2 == [L1 EXCEPT !.indent_stack_ = Append(@, indent_level)]
                  IN [L |-> L2, tokens |-> <<makeToken(L2, "INDENT", <<>>)>>, threw |-> FALSE]
             ELSE IF indent_level < current_indent
             THEN LET p == popIndents(L1, indent_level, <<>>)
                  IN [L |-> p.L, tokens |-> p.tokens,
                      threw |-> p.L.indent_stack_ = <<>>
                                   \/ Last(p.L.indent_stack_) # indent_level]
             ELSE [L |-> L1, tokens |-> <<>>, threw |-> FALSE]

\* the value of an escape sequence: the character after the backslash
escapeValue(escaped) ==
    CASE escaped = "n" -> "\n"
      [] escaped = "t" -> "\t"
      [] escaped = "r" -> "\r"
      [] escaped = "0" -> "\\0"
      [] OTHER -> escaped

\* the scanning loop of tokenizeString; the atom after a backslash is one character
RECURSIVE scanString(_, _, _)
scanString(L, quote_char, value) ==
    IF ~isAtEnd(L) /\ peek(L) # quote_char
    THEN IF peek(L) = "\\"
         THEN LET L1 == advance(L) IN
              IF isAtEnd(L1)
              THEN [L |-> L1, value |-> value, threw |-> TRUE]
              ELSE scanString(advance(L1), quote_char,
                              Append(value, escapeValue(peek(L1))))
         ELSE scanString(advance(L), quote_char, Append(value, peek(L)))
    ELSE [L |-> L, value |-> value, threw |-> FALSE]

tokenizeString(L, quote_char) ==
    LET s == scanString(L, quote_char, <<>>) IN
    IF s.threw \/ isAtEnd(s.L)
    THEN [L |-> s.L, token |-> makeToken(s.L, "UNKNOWN", <<>>), threw |-> TRUE]
    ELSE LET L1 == advance(s.L)
         IN [L |-> L1, token |-> makeToken(L1, "STRING", s.value), threw |-> FALSE]

\* the digit loops of tokenizeNumber
RECURSIVE scanDigits(_, _)
scanDigits(L, value) ==
    IF ~isAtEnd(L) /\ isDigit(peek(L))
    THEN scanDigits(advance(L), Append(value, peek(L)))
    ELSE [L |-> L, value |-> value]

tokenizeNumber(L) ==
    LET d == scanDigits(L, <<>>) IN
    IF ~isAtEnd(d.L) /\ peek(d.L) = "." /\ isDigit(peekNext(d.L))
    THEN LET f == scanDigits(advance(d.L), Append(d.value, "."))
         IN [L |-> f.L, token |-> makeToken(f.L, "FLOAT", f.value), threw |-> FALSE]
    ELSE [L |-> d.L, token |-> makeToken(d.L, "INTEGER", d.value), threw |-> FALSE]

\* the loop of tokenizeIdentifier: the letters, digits and underscores of one word
RECURSIVE scanWord(_, _)
scanWord(L, value) ==
    IF ~isAtEnd(L) /\ isAlphaNumeric(peek(L))
    THEN scanWord(advance(L), value \o peek(L))
    ELSE [L |-> L, value |-> value]

tokenizeIdentifier(L) ==
    LET w == scanWord(L, "") IN
    IF w.value \in DOMAIN keywords_
    THEN [L |-> w.L, token |-> makeToken(w.L, keywords_[w.value], <<w.value>>), threw |-> FALSE]
    ELSE [L |-> w.L, token |-> makeToken(w.L, "IDENTIFIER", <<w.value>>), threw |-> FALSE]

\* current_-- : the first character of the atom just read is read again
backUp(L, c) ==
    [L EXCEPT !.current_ = @ - 1, !.position_.column = @ - (Len(c) - 1)]

\* the two switch statements of nextToken: c has been read, next is peek()
operatorToken(L, c) ==
    LET next == peek(L)
        one(type) == [L |-> L, token |-> makeToken(L, type, <<c>>), threw |-> FALSE]
        two(type) == LET L1 == advance(L)
                     IN [L |-> L1, token |-> makeToken(L1, type, <<c, next>>), threw |-> FALSE]
    IN  CASE c = "+" -> IF next = "=" THEN two("PLUS_ASSIGN") ELSE one("PLUS")
          [] c = "-" -> IF next = "=" THEN two("MINUS_ASSIGN") ELSE one("MINUS")
          [] c = "*" -> IF next = "*" THEN two("POWER")
                        ELSE IF next = "=" THEN two("MULT_ASSIGN") ELSE one("MULTIPLY")
          [] c = "/" -> IF next = "/" THEN two("FLOOR_DIVIDE")
                        ELSE IF next = "=" THEN two("DIV_ASSIGN") ELSE one("DIVIDE")
          [] c = "=" -> IF next = "=" THEN two("EQUAL") ELSE one("ASSIGN")
          [] c = "!" /\ next = "=" -> two("NOT_EQUAL")
          [] c = "<" -> IF next = "=" THEN two("LESS_EQUAL") ELSE one("LESS")
          [] c = ">" -> IF next = "=" THEN two("GREATER_EQUAL") ELSE one("GREATER")
          [] c = "%" -> one("MODULO")
          [] c = "(" -> one("LPAREN")
          [] c = ")" -> one("RPAREN")
          [] c = "[" -> one("LBRACKET")
          [] c = "]" -> one("RBRACKET")
          [] c = "{" -> one("LBRACE")
          [] c = "}" -> one("RBRACE")
          [] c = "," -> one("COMMA")
          [] c = ":" -> one("COLON")
          [] c = ";" -> one("SEMICOLON")
          [] c = "." -> one("DOT")
          [] OTHER -> [L |-> L, token |-> makeToken(L, "UNKNOWN", <<c>>), threw |-> TRUE]

\* the tokens of handleIndentation that nextToken hands on: the first one only
indentTokenReturned(indent_tokens) == indent_tokens[1]

\* returns the object, the token, and whether a LexerException was thrown
RECURSIVE nextToken(_)
nextToken(L) ==
    IF isAtEnd(L)
    THEN [L |-> L, token |-> makeToken(L, "EOF_TOKEN", <<>>), threw |-> FALSE]
    ELSE
    LET h == IF L.at_line_start_
             THEN handleIndentation([L EXCEPT !.at_line_start_ = FALSE])
             ELSE [L |-> L, tokens |-> <<>>, threw |-> FALSE]
    IN
    IF h.threw THEN [L |-> h.L, token |-> makeToken(h.L, "UNKNOWN", <<>>), threw |-> TRUE]
    ELSE IF h.tokens # <<>>
    THEN [L |-> h.L, token |-> indentTokenReturned(h.tokens), threw |-> FALSE]
    ELSE
    LET L1 == skipWhitespace(h.L) IN
    IF isAtEnd(L1)
    THEN [L |-> L1, token |-> makeToken(L1, "EOF_TOKEN", <<>>), threw |-> FALSE]
    ELSE
    LET c == peek(L1)
        L2 == advance(L1)
    IN  CASE c = "\n" ->
               LET L3 == [L2 EXCEPT !.at_line_start_ = TRUE]
               IN [L |-> L3, token |-> makeToken(L3, "NEWLINE", <<"\n">>), threw |-> FALSE]
          [] c = "#" -> nextToken(skipComment(L2))
          [] c = "\"" \/ c = "'" -> tokenizeString(L2, c)
          [] isDigit(c) -> tokenizeNumber(backUp(L2, c))
          [] isAlpha(c) -> tokenizeIdentifier(backUp(L2, c))
          [] OTHER -> operatorToken(L2, c)

(***************************************************************************)
(* AST nodes (ast.h).  A null unique_ptr is the node Null.  Positions are  *)
(* left out of the nodes.                                                  *)
(***************************************************************************)
Null == [k |-> "null"]
LiteralExpression(token) == [k |-> "Literal", type |-> token.type, value |-> token.value]
IdentifierExpression(name) == [k |-> "Identifier", name |-> name]
BinaryExpression(left, operator_type, right) ==
    [k |-> "Binary", left |-> left, operator_type |-> operator_type, right |-> right]
UnaryExpression(operator_type, operand) ==
    [k |-> "Unary", operator_type |-> operator_type, operand |-> operand]
CallExpression(function, arguments) ==
    [k |-> "Call", function |-> function, arguments |-> arguments]
AssignmentExpression(target, value) ==
    [k |-> "Assignment", target |-> target, value |-> value]
ExpressionStatement(expression) == [k |-> "ExpressionStatement", expression |-> expression]
BlockStatement(statements) == [k |-> "Block", statements |-> statements]
IfStatement(condition, then_block, else_block) ==
    [k |-> "If", condition |-> condition, then_block |-> then_block, else_block |-> else_block]
WhileStatement(condition, body) == [k |-> "While", condition |-> condition, body |-> body]
ForStatement(variable, iterable, body) ==
    [k |-> "For", variable |-> variable, iterable |-> iterable, body |-> body]
Parameter(name, default_value) == [name |-> name, default_value |-> default_value]
FunctionDefinition(name, parameters, body) ==
    [k |-> "FunctionDefinition", name |-> name, parameters |-> parameters, body |-> body]
ReturnStatement(value) == [k |-> "Return", value |-> value]
BreakStatement == [k |-> "Break"]
ContinueStatement == [k |-> "Continue"]
PassStatement == [k |-> "Pass"]
Program(statements) == [k |-> "Program", statements |-> statements]

(***************************************************************************)
(* The Parser object P: tokens_ and current_.  A parsing operator returns  *)
(* the object after the call, the node built, and whether a                *)
(* ParserException was thrown.                                             *)
(***************************************************************************)
NewParser(toks) == [tokens_ |-> toks, current_ |-> 0]

Parser_peek(P) ==
    IF P.current_ >= Len(P.tokens_)
    THEN [type |-> "EOF_TOKEN", value |-> <<>>, position |-> [line |-> 1, column |-> 1]]
    ELSE P.tokens_[P.current_ + 1]

Parser_isAtEnd(P) ==
    P.current_ >= Len(P.tokens_) \/ Parser_peek(P).type = "EOF_TOKEN"

Parser_advance(P) == IF ~Parser_isAtEnd(P) THEN [P EXCEPT !.current_ = @ + 1] ELSE P

check(P, type) == IF Parser_isAtEnd(P) THEN FALSE ELSE Parser_peek(P).type = type

\* match(types): whether it returns true; the object is then Parser_advance(P)
match(P, types) == \E type \in types : check(P, type)

Parsed(P, node) == [P |-> P, node |-> node, threw |-> FALSE]
ParserError(P) == [P |-> P, node |-> Null, threw |-> TRUE]

\* consume(type, message); node is the token consumed
consume(P, type) ==
    IF check(P, type) THEN Parsed(Parser_advance(P), Parser_peek(P)) ELSE ParserError(P)

\* r is the outcome of a parsing call: an exception propagates, otherwise K goes on
Try(r, K(_)) == IF r.threw THEN r ELSE K(r)

\* consume called on each type of the list in turn
RECURSIVE consumeAll(_, _)
consumeAll(P, types) ==
    IF types = <<>> THEN Parsed(P, Null)
    ELSE Try(consume(P, Head(types)), LAMBDA c : consumeAll(c.P, Tail(types)))

\* skipNewlines that skips nothing
skipNewlinesNone(P) == P

RECURSIVE skipNewlines(_)
skipNewlines(P) ==
    IF match(P, {"NEWLINE"}) THEN skipNewlines(Parser_advance(P)) ELSE P

\* LevelOps with the operators of term and factor exchanged
LevelOpsTermFactorExchanged(level) ==
    CASE level = 1 -> {"OR"}
      [] level = 2 -> {"AND"}
      [] level = 3 -> {"NOT_EQUAL", "EQUAL"}
      [] level = 4 -> {"GREATER", "GREATER_EQUAL", "LESS", "LESS_EQUAL"}
      [] level = 5 -> {"DIVIDE", "MULTIPLY", "MODULO", "FLOOR_DIVIDE"}
      [] level = 6 -> {"MINUS", "PLUS"}

\* the operator kinds matched by the loop of each binary level
LevelOps(level) ==
    CASE level = 1 -> {"OR"}
      [] level = 2 -> {"AND"}
      [] level = 3 -> {"NOT_EQUAL", "EQUAL"}
      [] level = 4 -> {"GREATER", "GREATER_EQUAL", "LESS", "LESS_EQUAL"}
      [] level = 5 -> {"MINUS", "PLUS"}
      [] level = 6 -> {"DIVIDE", "MULTIPLY", "MODULO", "FLOOR_DIVIDE"}

\* Parser_rule("expression", P) is expression(P) and Parser_rule("statement", P) is
\* statement(P): the two calls that close the recursion of the grammar
RECURSIVE Parser_rule(_, _)

RECURSIVE argumentLoop(_, _), callLoop(_, _), unary(_), power(_),
          binaryLevel(_, _), binaryLoop(_, _, _), assignment(_), blockLoop(_, _)

primary(P) ==
    IF match(P, {"BOOLEAN", "INTEGER", "FLOAT", "STRING"})
    THEN Parsed(Parser_advance(P), LiteralExpression(Parser_peek(P)))
    ELSE IF match(P, {"IDENTIFIER"})
    THEN Parsed(Parser_advance(P), IdentifierExpression(Parser_peek(P).value))
    ELSE IF match(P, {"LPAREN"})
    THEN Try(Parser_rule("expression", Parser_advance(P)), LAMBDA e :
         Try(consume(e.P, "RPAREN"), LAMBDA c : Parsed(c.P, e.node)))
    ELSE ParserError(P)

\* the do-while loop of finishCall
argumentLoop(P, arguments) ==
    Try(Parser_rule("expression", P), LAMBDA a :
        IF match(a.P, {"COMMA"})
        THEN argumentLoop(Parser_advance(a.P), Append(arguments, a.node))
        ELSE Parsed(a.P, Append(arguments, a.node)))

finishCall(P, callee) ==
    Try(IF ~check(P, "RPAREN") THEN argumentLoop(P, <<>>) ELSE Parsed(P, <<>>),
        LAMBDA arguments :
    Try(consume(arguments.P, "RPAREN"), LAMBDA paren :
        Parsed(paren.P, CallExpression(callee, arguments.node))))

callLoop(P, expr) ==
    IF match(P, {"LPAREN"})
    THEN Try(finishCall(Parser_advance(P), expr), LAMBDA f : callLoop(f.P, f.node))
    ELSE Parsed(P, expr)

Parser_call(P) == Try(primary(P), LAMBDA e : callLoop(e.P, e.node))

unary(P) ==
    IF match(P, {"NOT", "MINUS"})
    THEN Try(unary(Parser_advance(P)), LAMBDA right :
             Parsed(right.P, UnaryExpression(Parser_peek(P).type, right.node)))
    ELSE Parser_call(P)

power(P) ==
    Try(unary(P), LAMBDA e :
        IF match(e.P, {"POWER"})
        THEN Try(power(Parser_advance(e.P)), LAMBDA right :
                 Parsed(right.P, BinaryExpression(e.node, "POWER", right.node)))
        ELSE e)

\* the while (match(...)) loop of logicalOr, logicalAnd, equality, comparison, term, factor
binaryLoop(P, expr, level) ==
    IF match(P, LevelOps(level))
    THEN Try(binaryLevel(Parser_advance(P), level + 1), LAMBDA right :
             binaryLoop(right.P,
                        BinaryExpression(expr, Parser_peek(P).type, right.node), level))
    ELSE Parsed(P, expr)

\* level 1 is logicalOr, ..., level 6 is factor, level 7 is power
binaryLevel(P, level) ==
    IF level = 7 THEN power(P)
    ELSE Try(binaryLevel(P, level + 1), LAMBDA e : binaryLoop(e.P, e.node, level))

factor(P) == binaryLevel(P, 6)
term(P) == binaryLevel(P, 5)
comparison(P) == binaryLevel(P, 4)
equality(P) == binaryLevel(P, 3)
logicalAnd(P) == binaryLevel(P, 2)
logicalOr(P) == binaryLevel(P, 1)

assignment(P) ==
    Try(logicalOr(P), LAMBDA e :
        IF match(e.P, {"ASSIGN"})
        THEN Try(assignment(Parser_advance(e.P)), LAMBDA value :
                 Parsed(value.P, AssignmentExpression(e.node, value.node)))
        ELSE e)

expression(P) == assignment(P)

expressionStatement(P) ==
    Try(Parser_rule("expression", P), LAMBDA e : Parsed(e.P, ExpressionStatement(e.node)))

\* the while loop of blockStatement
blockLoop(P, statements) ==
    IF ~check(P, "DEDENT") /\ ~Parser_isAtEnd(P)
    THEN Try(Parser_rule("statement", P), LAMBDA stmt :
             blockLoop(skipNewlines(stmt.P), Append(statements, stmt.node)))
    ELSE Parsed(P, statements)

\* the DEDENT that closes the block is consumed when it is there
closeBlock(P) == IF check(P, "DEDENT") THEN Parser_advance(P) ELSE P

blockStatement(P) ==
    Try(consume(P, "INDENT"), LAMBDA i :
    Try(blockLoop(i.P, <<>>), LAMBDA b :
        Parsed(closeBlock(b.P), BlockStatement(b.node))))

\* the header of a compound statement after its expression, then its block
colonNewlineBlock(P) ==
    Try(consumeAll(P, <<"COLON", "NEWLINE">>), LAMBDA h : blockStatement(h.P))

\* the do-while loop of functionDefinition over the parameter names
RECURSIVE parameterLoop(_, _)
parameterLoop(P, parameters) ==
    Try(consume(P, "IDENTIFIER"), LAMBDA param :
        IF match(param.P, {"COMMA"})
        THEN parameterLoop(Parser_advance(param.P),
                           Append(parameters, Parameter(param.node.value, Null)))
        ELSE Parsed(param.P, Append(parameters, Parameter(param.node.value, Null))))

functionDefinition(P) ==
    Try(consume(P, "IDENTIFIER"), LAMBDA name_token :
    Try(consume(name_token.P, "LPAREN"), LAMBDA lp :
    Try(IF ~check(lp.P, "RPAREN") THEN parameterLoop(lp.P, <<>>) ELSE Parsed(lp.P, <<>>),
        LAMBDA parameters :
    Try(consume(parameters.P, "RPAREN"), LAMBDA rp :
    Try(colonNewlineBlock(rp.P), LAMBDA body :
        Parsed(body.P,
               FunctionDefinition(name_token.node.value, parameters.node, body.node)))))))

\* the optional else part of ifStatement
elsePart(P) ==
    IF match(P, {"ELSE"}) THEN colonNewlineBlock(Parser_advance(P)) ELSE Parsed(P, Null)

ifStatement(P) ==
    Try(Parser_rule("expression", P), LAMBDA condition :
    Try(colonNewlineBlock(condition.P), LAMBDA then_block :
    Try(elsePart(then_block.P), LAMBDA else_block :
        Parsed(else_block.P,
               IfStatement(condition.node, then_block.node, else_block.node)))))

whileStatement(P) ==
    Try(Parser_rule("expression", P), LAMBDA condition :
    Try(colonNewlineBlock(condition.P), LAMBDA body :
        Parsed(body.P, WhileStatement(condition.node, body.node))))

forStatement(P) ==
    Try(consume(P, "IDENTIFIER"), LAMBDA var_token :
    Try(consume(var_token.P, "IN"), LAMBDA in :
    Try(Parser_rule("expression", in.P), LAMBDA iterable :
    Try(colonNewlineBlock(iterable.P), LAMBDA body :
        Parsed(body.P, ForStatement(var_token.node.value, iterable.node, body.node))))))

returnStatement(P) ==
    IF ~check(P, "NEWLINE") /\ ~Parser_isAtEnd(P)
    THEN Try(Parser_rule("expression", P), LAMBDA value :
             Parsed(value.P, ReturnStatement(value.node)))
    ELSE Parsed(P, ReturnStatement(Null))

statement(P) ==
    IF match(P, {"DEF"}) THEN functionDefinition(Parser_advance(P))
    ELSE IF match(P, {"IF"}) THEN ifStatement(Parser_advance(P))
    ELSE IF match(P, {"WHILE"}) THEN whileStatement(Parser_advance(P))
    ELSE IF match(P, {"FOR"}) THEN forStatement(Parser_advance(P))
    ELSE IF match(P, {"RETURN"}) THEN returnStatement(Parser_advance(P))
    ELSE expressionStatement(P)

Parser_rule(rule, P) ==
    IF rule = "expression" THEN expression(P) ELSE statement(P)

\* the while loop of Parser::program
RECURSIVE programLoop(_, _)
programLoop(P, statements) ==
    IF ~Parser_isAtEnd(P)
    THEN Try(Parser_rule("statement", P), LAMBDA stmt :
             programLoop(skipNewlines(stmt.P), Append(statements, stmt.node)))
    ELSE Parsed(P, statements)

Parser_program(P) ==
    Try(programLoop(skipNewlines(P), <<>>), LAMBDA r : Parsed(r.P, Program(r.node)))

parse(P) == Parser_program(P)

(***************************************************************************)
(* ASTNode::toString (ast.cpp) for the nodes the parser builds: the text   *)
(* as a sequence of atoms.                                                 *)
(***************************************************************************)
\* op_str of BinaryExpression::toString
binaryOpStr(operator_type) ==
    CASE operator_type = "PLUS" -> <<"+">>
      [] operator_type = "MINUS" -> <<"-">>
      [] operator_type = "MULTIPLY" -> <<"*">>
      [] operator_type = "DIVIDE" -> <<"/">>
      [] operator_type = "EQUAL" -> <<"=", "=">>
      [] operator_type = "NOT_EQUAL" -> <<"!", "=">>
      [] operator_type = "LESS" -> <<"<">>
      [] operator_type = "LESS_EQUAL" -> <<"<", "=">>
      [] operator_type = "GREATER" -> <<">">>
      [] operator_type = "GREATER_EQUAL" -> <<">", "=">>
      [] operator_type = "AND" -> <<"and">>
      [] operator_type = "OR" -> <<"or">>
      [] OTHER -> <<"?">>

\* op_str of UnaryExpression::toString
unaryOpStr(operator_type) ==
    CASE operator_type = "MINUS" -> <<"-">>
      [] operator_type = "NOT" -> <<"not">>
      [] OTHER -> <<"?">>

RECURSIVE toString(_)

\* the loops over arguments and parameters: the texts from the i-th on, with ", " between
RECURSIVE argumentsToString(_, _)
argumentsToString(arguments, i) ==
    IF i > Len(arguments) THEN <<>>
    ELSE (IF i > 1 THEN <<",", " ">> ELSE <<>>) \o toString(arguments[i])
           \o argumentsToString(arguments, i + 1)

RECURSIVE parametersToString(_, _)
parametersToString(parameters, i) ==
    IF i > Len(parameters) THEN <<>>
    ELSE (IF i > 1 THEN <<",", " ">> ELSE <<>>) \o parameters[i].name
           \o (IF parameters[i].default_value.k # "null"
               THEN <<"=">> \o toString(parameters[i].default_value) ELSE <<>>)
           \o parametersToString(parameters, i + 1)

\* the loop of BlockStatement::toString and Program::toString: "  " stmt "\n"
RECURSIVE statementsToString(_, _)
statementsToString(statements, i) ==
    IF i > Len(statements) THEN <<>>
    ELSE <<" ", " ">> \o toString(statements[i]) \o <<"\n">>
           \o statementsToString(statements, i + 1)

toString(node) ==
    CASE node.k = "Literal" -> <<"Literal", "(">> \o node.value \o <<")">>
      [] node.k = "Identifier" -> <<"Identifier", "(">> \o node.name \o <<")">>
      [] node.k = "Binary" ->
            <<"Binary", "(">> \o toString(node.left) \o <<" ">>
              \o binaryOpStr(node.operator_type) \o <<" ">> \o toString(node.right)
              \o <<")">>
      [] node.k = "Unary" ->
            <<"Unary", "(">> \o unaryOpStr(node.operator_type) \o <<" ">>
              \o toString(node.operand) \o <<")">>
      [] node.k = "Call" ->
            <<"Call", "(">> \o toString(node.function) \o <<"(">>
              \o argumentsToString(node.arguments, 1) \o <<")", ")">>
      [] node.k = "Assignment" ->
            <<"Assignment", "(">> \o toString(node.target) \o <<" ", "=", " ">>
              \o toString(node.value) \o <<")">>
      [] node.k = "ExpressionStatement" ->
            <<"ExprStmt", "(">> \o toString(node.expression) \o <<")">>
      [] node.k = "Block" ->
            <<"Block", "(", "\n">> \o statementsToString(node.statements, 1) \o <<")">>
      [] node.k = "If" ->
            <<"If", "(">> \o toString(node.condition) \o <<" ", "then", " ">>
              \o toString(node.then_block)
              \o (IF node.else_block.k # "null"
                  THEN <<" ", "else", " ">> \o toString(node.else_block) ELSE <<>>)
              \o <<")">>
      [] node.k = "While" ->
            <<"While", "(">> \o toString(node.condition) \o <<" ">>
              \o toString(node.body) \o <<")">>
      [] node.k = "For" ->
            <<"For", "(">> \o node.variable \o <<" ", "in", " ">>
              \o toString(node.iterable) \o <<" ">> \o toString(node.body) \o <<")">>
      [] node.k = "FunctionDefinition" ->
            <<"Function", "(">> \o node.name \o <<"(">>
              \o parametersToString(node.parameters, 1) \o <<")", " ">>
              \o toString(node.body) \o <<")">>
      [] node.k = "Return" ->
            IF node.value.k # "null"
            THEN <<"Return", "(">> \o toString(node.value) \o <<")">>
            ELSE <<"Return", "(", ")">>
      [] node.k = "Break" -> <<"Break", "(", ")">>
      [] node.k = "Continue" -> <<"Continue", "(", ")">>
      [] node.k = "Pass" -> <<"Pass", "(", ")">>
      [] node.k = "Program" ->
            <<"Program", "(", "\n">> \o statementsToString(node.statements, 1) \o <<")">>

(***************************************************************************)
(* The sources the front end is run on.                                    *)
(***************************************************************************)
\* any lines: an indentation, then a word, nothing, or a comment
LineIndents == {<<>>, <<" ">>, <<" ", " ">>}
LineBodies == {<<>>, <<"a">>, <<"#", "a">>}
AnyLine == {i \o b : i \in LineIndents, b \in LineBodies}
SourceEndings == {<<>>, <<"\n">>, <<" ">>}

RECURSIVE LinesOf(_)
LinesOf(n) ==
    IF n = 0 THEN {<<>>}
    ELSE IF n = 1 THEN AnyLine
    ELSE {s \o <<"\n">> \o l : s \in LinesOf(n - 1), l \in AnyLine}

LineSources ==
    {s \o e : s \in UNION {LinesOf(n) : n \in 0..MaxLines}, e \in SourceEndings}

\* block-structured lines: a line is a header ("if c:") or a simple statement ("x"),
\* at depth d; the line after a header is one level deeper, the line after a simple
\* statement is at the same depth or at any shallower one
IndentUnit == 2
MaxDepth == 2
LineShapes == [d : 0..MaxDepth, header : BOOLEAN]

WellIndented(ls) ==
    /\ ls[1].d = 0
    /\ ~ls[Len(ls)].header
    /\ \A i \in 1..(Len(ls) - 1) :
          IF ls[i].header THEN ls[i + 1].d = ls[i].d + 1 ELSE ls[i + 1].d <= ls[i].d

BlockShapes ==
    UNION {{ls \in [1..n -> LineShapes] : WellIndented(ls)} : n \in 1..MaxStmts}

RECURSIVE BlockSource(_)
BlockSource(ls) ==
    IF ls = <<>> THEN <<>>
    ELSE Spaces(IndentUnit * Head(ls).d)
           \o (IF Head(ls).header THEN <<"if", " ", "c", ":">> ELSE <<"x">>)
           \o <<"\n">> \o BlockSource(Tail(ls))

BlockSources == {BlockSource(ls) : ls \in BlockShapes}
                  \cup {Front(BlockSource(ls)) : ls \in BlockShapes}

Ln(depth, atoms) == Spaces(IndentUnit * depth) \o atoms \o <<"\n">>

\* def f(): if c: return 1 else: return 2, then def g(): return 3
SrcDefIfElseDef ==
    Ln(0, <<"def", " ", "f", "(", ")", ":">>)
      \o Ln(1, <<"if", " ", "c", ":">>)
      \o Ln(2, <<"return", " ", "1">>)
      \o Ln(1, <<"else", ":">>)
      \o Ln(2, <<"return", " ", "2">>)
      \o Ln(0, <<"def", " ", "g", "(", "a", ",", " ", "b", ")", ":">>)
      \o Ln(1, <<"return", " ", "a", " ", "+", " ", "b", " ", "*", " ", "3">>)

\* a while loop in a for loop, closed one level at a time, and a call
SrcLoops ==
    Ln(0, <<"for", " ", "i", " ", "in", " ", "range", "(", "3", ")", ":">>)
      \o Ln(1, <<"while", " ", "i", " ", "<", "=", " ", "2", ":">>)
      \o Ln(2, <<"i", " ", "=", " ", "i", " ", "+", " ", "1">>)
      \o Ln(1, <<"print", "(", "i", ",", " ", "\"", "a", "\\", "n", "\"", ")">>)
      \o Ln(0, <<"x", " ", "=", " ", "not", " ", "-", "1", ".", "5">>)

\* a tab-indented body, a float, a comment after code
SrcTab ==
    Ln(0, <<"if", " ", "x", " ", "=", "=", " ", "1", ".", "5", ":", " ", "#", "c">>)
      \o <<"\t", "y", " ", "=", " ", "2", " ", "*", "*", " ", "3", " ", "*", "*", " ", "2", "\n">>
      \o Ln(0, <<"z", " ", "=", " ", "(", "y", " ", "!", "=", " ", "2", ")", " ", "or", " ", "y">>)

\* sources that end in a lexer or a parser diagnostic
SrcStray == Ln(0, <<"x", " ", "=", " ", "@">>)
SrcBang == Ln(0, <<"x", " ", "!", " ", "y">>)
SrcUnterminated == Ln(0, <<"x", " ", "=", " ", "'", "a">>)
SrcNoBlock == Ln(0, <<"while", " ", "x", ":">>) \o Ln(0, <<"y">>)
SrcBadDef == Ln(0, <<"def", " ", "f", "(", "a", ",", ")", ":">>) \o Ln(1, <<"return">>)

\* assignments whose target is not an identifier: 1 = 5, x + y = 5, f() = 5, -x = 5,
\* "a" = 5, and the same as the value of an assignment to z
NonIdentifierTargets ==
    {<<"1">>, <<"x", " ", "+", " ", "y">>, <<"f", "(", ")">>, <<"-", "x">>,
     <<"\"", "a", "\"">>}
TargetSources ==
    {Ln(0, target \o <<" ", "=", " ", "5">>) : target \in NonIdentifierTargets}
    \cup {Ln(0, <<"z", " ", "=", " ">> \o target \o <<" ", "=", " ", "5">>) :
            target \in NonIdentifierTargets}

\* break, continue and pass as a statement of the top level, of a while block, and of the
\* if block of a while block
SimpleKeywords == {"break", "continue", "pass"}
SimpleSource(keyword, depth) ==
    CASE depth = 0 -> Ln(0, <<keyword>>)
      [] depth = 1 -> Ln(0, <<"while", " ", "x", ":">>) \o Ln(1, <<keyword>>)
      [] depth = 2 -> Ln(0, <<"while", " ", "x", ":">>) \o Ln(1, <<"if", " ", "y", ":">>)
                      \o Ln(2, <<keyword>>)
SimpleSources == {SimpleSource(keyword, depth) : keyword \in SimpleKeywords, depth \in 0..2}

\* if a: x, elif b: y, with or without else: z, and with or without a statement after it
ElifSource(withElse, withNext) ==
    Ln(0, <<"if", " ", "a", ":">>) \o Ln(1, <<"x">>)
      \o Ln(0, <<"elif", " ", "b", ":">>) \o Ln(1, <<"y">>)
      \o (IF withElse THEN Ln(0, <<"else", ":">>) \o Ln(1, <<"z">>) ELSE <<>>)
      \o (IF withNext THEN Ln(0, <<"w">>) ELSE <<>>)
ElifSources == {ElifSource(withElse, withNext) : withElse \in BOOLEAN, withNext \in BOOLEAN}

\* the binary operators as written, and the prefix operators as written
OperatorAtoms ==
    {<<"=">>, <<"or">>, <<"and">>, <<"=", "=">>, <<"!", "=">>, <<"<">>, <<"<", "=">>,
     <<">">>, <<">", "=">>, <<"+">>, <<"-">>, <<"*">>, <<"/">>, <<"%">>, <<"/", "/">>,
     <<"*", "*">>}
PrefixAtoms == {<<"-">>, <<"not", " ">>}
\* a op1 b op2 c
ChainSource(op1, op2) ==
    Ln(0, <<"a", " ">> \o op1 \o <<" ", "b", " ">> \o op2 \o <<" ", "c">>)
\* u a op b, and a op u b
PrefixSource(prefix, op, onLeft) ==
    Ln(0, (IF onLeft THEN prefix ELSE <<>>) \o <<"a", " ">> \o op \o <<" ">>
          \o (IF onLeft THEN <<>> ELSE prefix) \o <<"b">>)
OperatorSources ==
    {ChainSource(op1, op2) : op1 \in OperatorAtoms, op2 \in OperatorAtoms}
    \cup {PrefixSource(prefix, op, onLeft) :
            prefix \in PrefixAtoms, op \in OperatorAtoms, onLeft \in BOOLEAN}

\* lines of spaces and tabs only, and comments behind tabs
SrcBlankTabs == <<"\t", "\n", " ", "\t", "\n", "\n", "\t", " ">>
SrcCommentTabs == <<"\t", "#", "a", "\n", " ", "\t", "#", "\n", "#", " ", "x", " ", "=", " ", "1">>
BlankSources == {SrcBlankTabs, SrcCommentTabs}

\* a block whose last line is followed by a line of spaces, and by a comment line,
\* without a final newline
SrcBlockThenSpaces == Ln(0, <<"if", " ", "c", ":">>) \o Ln(1, <<"x">>) \o <<" ", " ">>
SrcBlockThenComment == Ln(0, <<"if", " ", "c", ":">>) \o Ln(1, <<"x">>) \o <<"#", "a">>

FixedSources == {SrcDefIfElseDef, SrcLoops, SrcTab, SrcStray, SrcBang,
                 SrcUnterminated, SrcNoBlock, SrcBadDef,
                 SrcBlockThenSpaces, SrcBlockThenComment}

Sources == LineSources \cup BlockSources \cup FixedSources \cup TargetSources
           \cup SimpleSources \cup ElifSources \cup OperatorSources \cup BlankSources

(***************************************************************************)
(* The front end as a state machine.                                       *)
(***************************************************************************)
Init ==
    /\ \E source \in Sources : lexer = NewLexer(source)
    /\ tokens = <<>>
    /\ pc = "tokenize"
    /\ program = Null
    /\ interp = Null
    /\ driver = Null

\* one iteration of the while loop of Lexer::tokenize
TokenizeStep ==
    /\ pc = "tokenize"
    /\ ~isAtEnd(lexer)
    /\ LET r == nextToken(lexer) IN
       IF r.threw
       THEN /\ pc' = "LexerException"
            /\ tokens' = <<>>
            /\ lexer' = r.L
       ELSE /\ tokens' = Append(tokens, r.token)
            /\ lexer' = r.L
            /\ pc' = IF r.token.type = "EOF_TOKEN" THEN "break" ELSE "tokenize"
    /\ UNCHANGED <<program, interp, driver>>

\* the loop of Lexer::tokenize that adds the remaining DEDENT tokens
RECURSIVE remainingDedents(_, _)
remainingDedents(L, toks) ==
    IF Len(L.indent_stack_) > 1
    THEN LET L1 == [L EXCEPT !.indent_stack_ = Front(@)]
         IN remainingDedents(L1, Append(toks, makeToken(L1, "DEDENT", <<>>)))
    ELSE [L |-> L, tokens |-> toks]

\* Lexer::tokenize after its while loop: the DEDENT tokens, the EOF token, the return
TokenizeFinish ==
    /\ \/ pc = "tokenize" /\ isAtEnd(lexer)
       \/ pc = "break"
    /\ LET d == remainingDedents(lexer, tokens) IN
       /\ lexer' = d.L
       /\ tokens' = IF d.tokens = <<>> \/ Last(d.tokens).type # "EOF_TOKEN"
                    THEN Append(d.tokens, makeToken(d.L, "EOF_TOKEN", <<>>))
                    ELSE d.tokens
    /\ pc' = "tokenized"
    /\ UNCHANGED <<program, interp, driver>>

\* Parser parser(std::move(tokens)); parser.parse()
Parse ==
    /\ pc = "tokenized"
    /\ LET r == parse(NewParser(tokens)) IN
       IF r.threw
       THEN pc' = "ParserException" /\ program' = Null
       ELSE pc' = "parsed" /\ program' = r.node
    /\ UNCHANGED <<lexer, tokens, interp, driver>>

Next == TokenizeStep \/ TokenizeFinish \/ Parse

Spec == Init /\ [][Next]_vars

(***************************************************************************)
(* Runtime values (interpreter.h, interpreter.cpp).  The Value variant:    *)
(* nullptr, bool, int64_t, double, std::string, CallableFunction.  A       *)
(* double is kept as the exact fraction num/den with den > 0.              *)
(***************************************************************************)
NoneValue == [t |-> "None"]
BoolValue(b) == [t |-> "Bool", v |-> b]
IntValue(n) == [t |-> "Int", v |-> n]
FloatValue(num, den) == [t |-> "Float", num |-> num, den |-> den]
StrValue(atoms) == [t |-> "Str", v |-> atoms]
CallableFunction(declaration, closure) ==
    [t |-> "Function", declaration |-> declaration, closure |-> closure]

isNumber(v) == v.t \in {"Int", "Float"}
\* static_cast<double> of an int64_t, or the double itself
asDouble(v) == IF v.t = "Int" THEN [num |-> v.v, den |-> 1] ELSE [num |-> v.num, den |-> v.den]

isTruthy(value) ==
    CASE value.t = "None" -> FALSE
      [] value.t = "Bool" -> value.v
      [] value.t = "Int" -> value.v # 0
      [] value.t = "Float" -> value.num # 0
      [] value.t = "Str" -> value.v # <<>>
      [] value.t = "Function" -> TRUE

\* the decimal numbers std::stoll, std::stoi and std::to_string deal with
MaxInt == 20
Decimals == (0 - MaxInt)..MaxInt
isDecimal(atom) == \E n \in Decimals : ToString(n) = atom
decimalValue(atom) == CHOOSE n \in Decimals : ToString(n) = atom

\* int is narrower than int64_t: its values are -(IntMax + 1)..IntMax, inside Decimals
IntMax == 15
inInt(n) == 0 - (IntMax + 1) <= n /\ n <= IntMax

\* std::stod of a FLOAT lexeme: digits "." digits, the fraction being one digit run
stod(value) ==
    LET frac == value[3]
        scale == IF Len(frac) = 1 THEN 10 ELSE 100
    IN FloatValue(decimalValue(value[1]) * scale + decimalValue(frac), scale)

tokenToValue(token) ==
    CASE token.type = "INTEGER" -> IntValue(decimalValue(token.value[1]))
      [] token.type = "FLOAT" -> stod(token.value)
      [] token.type = "STRING" -> StrValue(token.value)
      [] OTHER -> StrValue(token.value)

\* the length in characters of a std::string
RECURSIVE length(_)
length(atoms) == IF atoms = <<>> THEN 0 ELSE Len(Head(atoms)) + length(Tail(atoms))

(***************************************************************************)
(* The Interpreter object I, with the heap of Environment objects:         *)
(*   envs         the Environment objects made so far; an Environment is   *)
(*                named by its index, 0 is the null parent                 *)
(*   environment  Interpreter::environment, the current one                *)
(*   last_value   Interpreter::last_value                                  *)
(*   out          the lines written to std::cout                           *)
(*   err          the lines written to std::cerr                           *)
(*   exc          the exception in flight, type "none" when there is none  *)
(*   steps        loop iterations and calls the run may still make         *)
(*   next         the statement Program's visit loop is at                 *)
(*   result       what interpret returned                                  *)
(*   signed_overflow  what the build does on a signed overflow: it "wraps" *)
(*                or it "traps"                                            *)
(***************************************************************************)
MaxSteps == 24

NoException == [type |-> "none", value |-> NoneValue]
EmptyVariables == [name \in {} |-> NoneValue]
Environment(parent) == [parent |-> parent, variables |-> EmptyVariables]

BuiltinNames == {<<"print">>, <<"range">>, <<"len">>, <<"str">>, <<"int">>,
                 <<"float">>, <<"type">>, <<"abs">>}

\* Environment::define on the Environment env
define(I, env, name, value) ==
    [I EXCEPT !.envs[env].variables =
        [n \in DOMAIN @ \cup {name} |-> IF n = name THEN value ELSE @[n]]]

\* Environment::get: the Environment of the chain from env that holds name, 0 if none
RECURSIVE holder(_, _, _)
\* Environment::get that asks the parent before its own variables
holderParentFirst(envs, env, name) ==
    IF envs[env].parent # 0 /\ holder(envs, envs[env].parent, name) # 0
    THEN holder(envs, envs[env].parent, name)
    ELSE IF name \in DOMAIN envs[env].variables THEN env
    ELSE 0
holder(envs, env, name) ==
    IF name \in DOMAIN envs[env].variables THEN env
    ELSE IF envs[env].parent # 0 THEN holder(envs, envs[env].parent, name)
    ELSE 0

\* Environment::assign on the Environment env (not called by the interpreter)
assign(I, env, name, value) ==
    IF holder(I.envs, env, name) # 0
    THEN [I EXCEPT !.envs[holder(I.envs, env, name)].variables[name] = value]
    ELSE [I EXCEPT !.exc = [type |-> "RuntimeError", value |-> NoneValue]]

\* Interpreter::Interpreter and initializeBuiltins
NewInterpreter ==
    define([envs |-> <<Environment(0)>>, environment |-> 1, last_value |-> NoneValue,
            out |-> <<>>, err |-> <<>>, exc |-> NoException, steps |-> MaxSteps, next |-> 1,
            result |-> NoneValue, signed_overflow |-> "wraps"],
           1, <<"__name__">>, StrValue(<<"__main__">>))

throw(I, type) == [I EXCEPT !.exc = [type |-> type, value |-> NoneValue]]
throwReturn(I, value) == [I EXCEPT !.exc = [type |-> "ReturnException", value |-> value]]
caught(I) == [I EXCEPT !.exc = NoException]
setValue(I, value) == [I EXCEPT !.last_value = value]

\* an exception in flight propagates, otherwise K goes on
Then(I, K(_)) == IF I.exc.type # "none" THEN I ELSE K(I)

\* one more loop iteration or call; a run that makes more than MaxSteps of them is cut
\* off with the exception "Cutoff", which no handler of the program catches
tick(I) == IF I.steps = 0 THEN throw(I, "Cutoff") ELSE [I EXCEPT !.steps = @ - 1]

(***************************************************************************)
(* Operators on values: the arms of visit(BinaryExpression&), and the      *)
(* conversions to text.                                                    *)
(***************************************************************************)
Comparisons == {"EQUAL", "NOT_EQUAL", "LESS", "LESS_EQUAL", "GREATER", "GREATER_EQUAL"}
IntOperators == {"PLUS", "MINUS", "MULTIPLY", "DIVIDE", "MODULO"} \cup Comparisons
DoubleOperators == {"PLUS", "MINUS", "MULTIPLY", "DIVIDE"} \cup Comparisons
StringOperators == {"PLUS", "EQUAL", "NOT_EQUAL"}

\* l op r for a comparison operator, on integers
\* compare whose <= is the strict <
compareLessEqualStrict(op, l, r) ==
    CASE op = "EQUAL" -> l = r
      [] op = "NOT_EQUAL" -> l # r
      [] op \in {"LESS", "LESS_EQUAL"} -> l < r
      [] op = "GREATER" -> l > r
      [] op = "GREATER_EQUAL" -> l >= r

compare(op, l, r) ==
    CASE op = "EQUAL" -> l = r
      [] op = "NOT_EQUAL" -> l # r
      [] op = "LESS" -> l < r
      [] op = "LESS_EQUAL" -> l <= r
      [] op = "GREATER" -> l > r
      [] op = "GREATER_EQUAL" -> l >= r

abs(n) == IF n < 0 THEN 0 - n ELSE n

\* the % of C++: the sign of the result is the sign of l
remainder(l, r) == IF l < 0 THEN 0 - (abs(l) % abs(r)) ELSE l % abs(r)

\* the double l / r, r # 0, as a fraction with a positive denominator
quotient(l, r) == IF r < 0 THEN FloatValue(0 - l, 0 - r) ELSE FloatValue(l, r)

\* intOperation that divides without looking at the divisor
intOperationDivideUnchecked(I, op, l, r) ==
    CASE op = "PLUS" -> setValue(I, IntValue(l + r))
      [] op = "MINUS" -> setValue(I, IntValue(l - r))
      [] op = "MULTIPLY" -> setValue(I, IntValue(l * r))
      [] op = "DIVIDE" -> setValue(I, quotient(l, r))
      [] op = "MODULO" -> IF r = 0 THEN throw(I, "RuntimeError")
                          ELSE setValue(I, IntValue(remainder(l, r)))
      [] OTHER -> setValue(I, BoolValue(compare(op, l, r)))

intOperation(I, op, l, r) ==
    CASE op = "PLUS" -> setValue(I, IntValue(l + r))
      [] op = "MINUS" -> setValue(I, IntValue(l - r))
      [] op = "MULTIPLY" -> setValue(I, IntValue(l * r))
      [] op = "DIVIDE" -> IF r = 0 THEN throw(I, "RuntimeError")
                          ELSE setValue(I, quotient(l, r))
      [] op = "MODULO" -> IF r = 0 THEN throw(I, "RuntimeError")
                          ELSE setValue(I, IntValue(remainder(l, r)))
      [] OTHER -> setValue(I, BoolValue(compare(op, l, r)))

doubleOperation(I, op, l, r) ==
    CASE op = "PLUS" -> setValue(I, FloatValue(l.num * r.den + r.num * l.den, l.den * r.den))
      [] op = "MINUS" -> setValue(I, FloatValue(l.num * r.den - r.num * l.den, l.den * r.den))
      [] op = "MULTIPLY" -> setValue(I, FloatValue(l.num * r.num, l.den * r.den))
      [] op = "DIVIDE" -> IF r.num = 0 THEN throw(I, "RuntimeError")
                          ELSE setValue(I, quotient(l.num * r.den, l.den * r.num))
      [] OTHER -> setValue(I, BoolValue(compare(op, l.num * r.den, r.num * l.den)))

stringOperation(I, op, l, r) ==
    CASE op = "PLUS" -> setValue(I, StrValue(l \o r))
      [] op = "EQUAL" -> setValue(I, BoolValue(l = r))
      [] op = "NOT_EQUAL" -> setValue(I, BoolValue(l # r))

\* visit(BinaryExpression&) once both operands are evaluated.  The orderings of two
\* strings are not modelled: no program of this module compares strings by order.
binaryOperation(I, left, op, right) ==
    IF left.t = "Int" /\ right.t = "Int" /\ op \in IntOperators
    THEN intOperation(I, op, left.v, right.v)
    ELSE IF isNumber(left) /\ isNumber(right) /\ op \in DoubleOperators
    THEN doubleOperation(I, op, asDouble(left), asDouble(right))
    ELSE IF left.t = "Str" /\ right.t = "Str" /\ op \in StringOperators
    THEN stringOperation(I, op, left.v, right.v)
    ELSE IF op = "AND" THEN setValue(I, BoolValue(isTruthy(left) /\ isTruthy(right)))
    ELSE IF op = "OR" THEN setValue(I, BoolValue(isTruthy(left) \/ isTruthy(right)))
    ELSE throw(I, "RuntimeError")

\* std::to_string of a double: six decimals
doubleToString(d) ==
    LET micro == (2 * 1000000 * (abs(d.num) % d.den) + d.den) \div (2 * d.den)
        whole == abs(d.num) \div d.den + micro \div 1000000
        digit(k) == ToString((micro \div k) % 10)
    IN (IF d.num < 0 THEN "-" ELSE "") \o ToString(whole) \o "." \o digit(100000)
       \o digit(10000) \o digit(1000) \o digit(100) \o digit(10) \o digit(1)

\* the text print and str make of a value
valueToString(value) ==
    CASE value.t = "None" -> <<"None">>
      [] value.t = "Bool" -> IF value.v THEN <<"True">> ELSE <<"False">>
      [] value.t = "Str" -> value.v
      [] value.t = "Int" -> <<ToString(value.v)>>
      [] value.t = "Float" -> <<doubleToString(asDouble(value))>>
      [] value.t = "Function" -> <<"<function ">> \o value.declaration.name \o <<">">>

\* what print writes for its arguments, without the end of line
RECURSIVE printed(_, _)
printed(args, i) ==
    IF i > Len(args) THEN <<>>
    ELSE (IF i > 1 THEN <<" ">> ELSE <<>>) \o valueToString(args[i]) \o printed(args, i + 1)

intOr(value, default) == IF value.t = "Int" THEN value.v ELSE default

\* builtins["range"]
range(args) ==
    IF args = <<>> \/ Len(args) > 3 THEN NoneValue
    ELSE LET all == \A i \in 1..Len(args) : args[i].t = "Int"
             start == IF Len(args) >= 2 /\ all THEN args[1].v ELSE 0
             end == IF Len(args) = 1 THEN intOr(args[1], 0)
                    ELSE IF all THEN args[2].v ELSE 0
             step == IF Len(args) = 3 /\ all THEN args[3].v ELSE 1
         IN StrValue(<<"__range_", ToString(start), "_", ToString(end), "_", ToString(step)>>)

\* the smallest int64_t, on the scale where MaxInt is the largest
Int64Min == 0 - MaxInt - 1

\* -val on an int64_t: for the smallest value the negation overflows, which is
\* undefined behaviour: it wraps around to the same value or traps, as
\* I.signed_overflow says
negate(I, val) ==
    IF val # Int64Min THEN setValue(I, IntValue(0 - val))
    ELSE IF I.signed_overflow = "traps" THEN throw(I, "Trap")
    ELSE setValue(I, IntValue(val))

\* builtins["abs"](arguments)
builtinAbs(I, arguments) ==
    IF Len(arguments) # 1 THEN throw(I, "RuntimeError")
    ELSE IF arguments[1].t = "Int"
    THEN IF arguments[1].v < 0 THEN negate(I, arguments[1].v) ELSE setValue(I, arguments[1])
    ELSE IF arguments[1].t = "Float"
    THEN IF arguments[1].num < 0
         THEN setValue(I, FloatValue(0 - arguments[1].num, arguments[1].den))
         ELSE setValue(I, arguments[1])
    ELSE throw(I, "RuntimeError")

\* builtins[func_name](arguments), for print, range, len, str and abs
callBuiltin(I, func_name, arguments) ==
    CASE func_name = <<"print">> ->
            setValue([I EXCEPT !.out = Append(@, printed(arguments, 1))], NoneValue)
      [] func_name = <<"range">> -> setValue(I, range(arguments))
      [] func_name = <<"len">> ->
            IF Len(arguments) # 1 THEN throw(I, "RuntimeError")
            ELSE IF arguments[1].t = "Str"
            THEN setValue(I, IntValue(length(arguments[1].v)))
            ELSE throw(I, "RuntimeError")
      [] func_name = <<"str">> ->
            IF Len(arguments) # 1 THEN throw(I, "RuntimeError")
            ELSE setValue(I, StrValue(valueToString(arguments[1])))
      [] func_name = <<"abs">> -> builtinAbs(I, arguments)

(***************************************************************************)
(* The visitors.  accept(I, node) is node.accept(interpreter): the object  *)
(* after the visit, with the exception the visit threw in exc.             *)
(***************************************************************************)
RECURSIVE accept(_, _)

\* Interpreter::evaluate: the value is last_value of the object returned
evaluate(I, expr) == accept(I, expr)

visitLiteralExpression(I, node) == setValue(I, tokenToValue(node))

\* visit(IdentifierExpression&) that asks the environment before the built-ins
visitIdentifierExpressionEnvironmentFirst(I, node) ==
    IF holder(I.envs, I.environment, node.name) # 0
    THEN setValue(I, I.envs[holder(I.envs, I.environment, node.name)].variables[node.name])
    ELSE IF node.name \in BuiltinNames
    THEN setValue(I, StrValue(<<"__builtin_">> \o node.name))
    ELSE throw(I, "RuntimeError")

visitIdentifierExpression(I, node) ==
    IF node.name \in BuiltinNames
    THEN setValue(I, StrValue(<<"__builtin_">> \o node.name))
    ELSE IF holder(I.envs, I.environment, node.name) # 0
    THEN setValue(I, I.envs[holder(I.envs, I.environment, node.name)].variables[node.name])
    ELSE throw(I, "RuntimeError")

\* visit(BinaryExpression&) that leaves out the right operand of and, or where the left
\* operand decides
visitBinaryExpressionShortCircuit(I, node) ==
    Then(evaluate(I, node.left), LAMBDA I1 :
        IF \/ node.operator_type = "AND" /\ ~isTruthy(I1.last_value)
           \/ node.operator_type = "OR" /\ isTruthy(I1.last_value)
        THEN setValue(I1, BoolValue(isTruthy(I1.last_value)))
        ELSE Then(evaluate(I1, node.right), LAMBDA I2 :
                binaryOperation(I2, I1.last_value, node.operator_type, I2.last_value)))

\* visit(BinaryExpression&) with the right operand evaluated before the left
visitBinaryExpressionRightFirst(I, node) ==
    Then(evaluate(I, node.right), LAMBDA I1 :
    Then(evaluate(I1, node.left), LAMBDA I2 :
        binaryOperation(I2, I2.last_value, node.operator_type, I1.last_value)))

visitBinaryExpression(I, node) ==
    Then(evaluate(I, node.left), LAMBDA I1 :
    Then(evaluate(I1, node.right), LAMBDA I2 :
        binaryOperation(I2, I1.last_value, node.operator_type, I2.last_value)))

visitUnaryExpression(I, node) ==
    Then(evaluate(I, node.operand), LAMBDA I1 :
        IF I1.last_value.t = "Int" THEN setValue(I1, IntValue(0 - I1.last_value.v)) ELSE I1)

\* the loop of visit(CallExpression&) over the arguments: the object and the vector
RECURSIVE evaluateArguments(_, _, _)
push_back(I, arguments, values) ==
    evaluateArguments(I, arguments, Append(values, I.last_value))
evaluateArguments(I, arguments, values) ==
    IF I.exc.type # "none" \/ Len(values) = Len(arguments)
    THEN [I |-> I, arguments |-> values]
    ELSE push_back(evaluate(I, arguments[Len(values) + 1]), arguments, values)

\* a parameter without argument and without default that is passed over in silence
missingArgumentIgnored(I, param) == I

\* throw RuntimeError("Missing argument for parameter '" + param.name + "'")
missingArgument(I, param) == throw(I, "RuntimeError")

\* the new environment of the call as the environment of a default value
default_environment_of_call(I, function, function_env) == function_env

\* interpreter.environment = closure: where a default value is evaluated
default_environment(I, function, function_env) == function.closure

\* the loop of CallableFunction::call that binds the parameters from the i-th on
RECURSIVE bindParameters(_, _, _, _, _)
bindParameters(I, function, arguments, i, function_env) ==
    LET params == function.declaration.parameters IN
    IF i > Len(params) THEN I
    ELSE IF i <= Len(arguments)
    THEN bindParameters(define(I, function_env, params[i].name, arguments[i]),
                        function, arguments, i + 1, function_env)
    ELSE IF params[i].default_value.k # "null"
    THEN Then(evaluate([I EXCEPT !.environment =
                                    default_environment(I, function, function_env)],
                       params[i].default_value), LAMBDA I1 :
            bindParameters(define([I1 EXCEPT !.environment = I.environment],
                                  function_env, params[i].name, I1.last_value),
                           function, arguments, i + 1, function_env))
    ELSE missingArgument(I, params[i])

\* the try block of CallableFunction::call, once the body has run
\* returnFromCall that drops the value a ReturnException carries
returnFromCallWithoutValue(I, previous_env) ==
    setValue(caught([I EXCEPT !.environment = previous_env]), NoneValue)
returnFromCall(I, previous_env) ==
    CASE I.exc.type = "none" ->
            setValue([I EXCEPT !.environment = previous_env], NoneValue)
      [] I.exc.type = "ReturnException" ->
            setValue(caught([I EXCEPT !.environment = previous_env]), I.exc.value)
      [] OTHER -> [I EXCEPT !.environment = previous_env]

\* the heap after std::make_shared<Environment>(I.environment): the caller as parent
make_function_env_of_caller(I, function) == Append(I.envs, Environment(I.environment))

\* the heap after function_env = std::make_shared<Environment>(closure)
\* std::make_shared<Environment>(): the new environment without a parent
make_function_env_detached(I, function) == Append(I.envs, Environment(0))

make_function_env(I, function) == Append(I.envs, Environment(function.closure))

\* CallableFunction::call; the Value returned is last_value of the object returned
CallableFunction_call(I, function, arguments) ==
    LET function_env == Len(I.envs) + 1 IN
    Then(tick(I), LAMBDA I0 :
    Then(bindParameters([I0 EXCEPT !.envs = make_function_env(I0, function)],
                        function, arguments, 1, function_env), LAMBDA I1 :
        IF Len(arguments) > Len(function.declaration.parameters)
        THEN throw(I1, "RuntimeError")
        ELSE returnFromCall(accept([I1 EXCEPT !.environment = function_env],
                                   function.declaration.body),
                            I1.environment)))

\* visit(CallExpression&) once the callee and the arguments r are evaluated
invoke(callee, r) ==
    IF r.I.exc.type # "none" THEN r.I
    ELSE IF callee.t = "Function" THEN CallableFunction_call(r.I, callee, r.arguments)
    ELSE IF /\ callee.t = "Str"
            /\ callee.v # <<>>
            /\ Head(callee.v) = "__builtin_"
            /\ Tail(callee.v) \in BuiltinNames
    THEN callBuiltin(r.I, Tail(callee.v), r.arguments)
    ELSE throw(r.I, "RuntimeError")

visitCallExpression(I, node) ==
    Then(evaluate(I, node.function), LAMBDA I1 :
        invoke(I1.last_value, evaluateArguments(I1, node.arguments, <<>>)))

\* visit(AssignmentExpression&) with Environment::assign for a name that is bound in the
\* chain of the current environment
visitAssignmentExpressionByAssign(I, node) ==
    Then(evaluate(I, node.value), LAMBDA I1 :
        IF node.target.k # "Identifier" THEN throw(I1, "RuntimeError")
        ELSE IF holder(I1.envs, I1.environment, node.target.name) # 0
        THEN assign(I1, I1.environment, node.target.name, I1.last_value)
        ELSE define(I1, I1.environment, node.target.name, I1.last_value))

visitAssignmentExpression(I, node) ==
    Then(evaluate(I, node.value), LAMBDA I1 :
        IF node.target.k = "Identifier"
        THEN define(I1, I1.environment, node.target.name, I1.last_value)
        ELSE throw(I1, "RuntimeError"))

visitExpressionStatement(I, node) == evaluate(I, node.expression)

\* the loop of visit(BlockStatement&) and of visit(Program&) from the i-th statement on
RECURSIVE acceptAll(_, _, _)
acceptAll(I, statements, i) ==
    IF i > Len(statements) THEN I
    ELSE Then(accept(I, statements[i]), LAMBDA I1 : acceptAll(I1, statements, i + 1))

visitBlockStatement(I, node) == acceptAll(I, node.statements, 1)

visitIfStatement(I, node) ==
    Then(evaluate(I, node.condition), LAMBDA I1 :
        IF isTruthy(I1.last_value) THEN accept(I1, node.then_block)
        ELSE IF node.else_block.k # "null" THEN accept(I1, node.else_block)
        ELSE I1)

\* the while loop of visit(WhileStatement&)
RECURSIVE whileLoop(_, _)
\* a loop whose handlers also catch RuntimeError and leave the loop
whileBodyCatchesDiagnostic(I, node) ==
    CASE I.exc.type \in {"none", "ContinueException"} -> whileLoop(caught(I), node)
      [] I.exc.type \in {"BreakException", "RuntimeError"} -> caught(I)
      [] OTHER -> I

whileBody(I, node) ==
    CASE I.exc.type \in {"none", "ContinueException"} -> whileLoop(caught(I), node)
      [] I.exc.type = "BreakException" -> caught(I)
      [] OTHER -> I
whileLoop(I, node) ==
    Then(tick(I), LAMBDA I0 :
    Then(evaluate(I0, node.condition), LAMBDA I1 :
        IF isTruthy(I1.last_value) THEN whileBody(accept(I1, node.body), node) ELSE I1))

visitWhileStatement(I, node) == whileLoop(I, node)

\* std::string::find of the character c from the atom pos on, 0 when there is none
find(str, c, pos) ==
    IF \E i \in pos..Len(str) : str[i] = c
    THEN CHOOSE i \in pos..Len(str) : str[i] = c /\ \A j \in pos..(i - 1) : str[j] # c
    ELSE 0

\* the for loop of visit(ForStatement&): for (int i = start; i < end; i += step)
RECURSIVE forLoop(_, _, _, _, _)
\* i += step on an int: a sum outside int is undefined behaviour, which wraps around or
\* traps, as I.signed_overflow says
forNext(I, node, i, end, step) ==
    IF inInt(i + step) THEN forLoop(I, node, i + step, end, step)
    ELSE IF I.signed_overflow = "traps" THEN throw(I, "Trap")
    ELSE forLoop(I, node,
                 IF i + step > IntMax THEN i + step - 2 * (IntMax + 1)
                 ELSE i + step + 2 * (IntMax + 1),
                 end, step)
\* forBody without the handler of BreakException
forBodyWithoutBreak(I, node, i, end, step) ==
    CASE I.exc.type \in {"none", "ContinueException"} ->
            forNext(caught(I), node, i, end, step)
      [] OTHER -> I
forBody(I, node, i, end, step) ==
    CASE I.exc.type \in {"none", "ContinueException"} ->
            forNext(caught(I), node, i, end, step)
      [] I.exc.type = "BreakException" -> caught(I)
      [] OTHER -> I
forLoop(I, node, i, end, step) ==
    IF ~(i < end) THEN I
    ELSE Then(tick(I), LAMBDA I0 :
            forBody(accept(define(I0, I0.environment, node.variable, IntValue(i)),
                           node.body),
                    node, i, end, step))

\* the part of visit(ForStatement&) that takes the sentinel of range apart; std::stoi
\* reads the leading number of its argument and throws std::invalid_argument without one,
\* and std::out_of_range when the number is not a value of int
forRange(I, node, str_val) ==
    LET first_underscore == find(str_val, "_", 2)
        second_underscore == find(str_val, "_", first_underscore + 1)
        stoi(from, to) == decimalValue(str_val[from])
        numeric(from, to) == from <= to /\ isDecimal(str_val[from])
    IN  IF first_underscore = 0 \/ second_underscore = 0 THEN I
        ELSE IF /\ numeric(2, first_underscore - 1)
                /\ numeric(first_underscore + 1, second_underscore - 1)
                /\ numeric(second_underscore + 1, Len(str_val))
        THEN IF /\ inInt(stoi(2, first_underscore - 1))
                /\ inInt(stoi(first_underscore + 1, second_underscore - 1))
                /\ inInt(stoi(second_underscore + 1, Len(str_val)))
             THEN forLoop(I, node, stoi(2, first_underscore - 1),
                          stoi(first_underscore + 1, second_underscore - 1),
                          stoi(second_underscore + 1, Len(str_val)))
             ELSE throw(I, "out_of_range")
        ELSE throw(I, "invalid_argument")

visitForStatement(I, node) ==
    Then(evaluate(I, node.iterable), LAMBDA I1 :
        IF /\ I1.last_value.t = "Str"
           /\ I1.last_value.v # <<>>
           /\ Head(I1.last_value.v) = "__range_"
        THEN forRange(I1, node, I1.last_value.v)
        ELSE I1)

visitFunctionDefinition(I, node) ==
    define(I, I.environment, node.name, CallableFunction(node, I.environment))

visitReturnStatement(I, node) ==
    IF node.value.k # "null"
    THEN Then(evaluate(I, node.value), LAMBDA I1 : throwReturn(I1, I1.last_value))
    ELSE throwReturn(I, NoneValue)

visitBreakStatement(I, node) == throw(I, "BreakException")
visitContinueStatement(I, node) == throw(I, "ContinueException")
visitPassStatement(I, node) == I

accept(I, node) ==
    CASE node.k = "Literal" -> visitLiteralExpression(I, node)
      [] node.k = "Identifier" -> visitIdentifierExpression(I, node)
      [] node.k = "Binary" -> visitBinaryExpression(I, node)
      [] node.k = "Unary" -> visitUnaryExpression(I, node)
      [] node.k = "Call" -> visitCallExpression(I, node)
      [] node.k = "Assignment" -> visitAssignmentExpression(I, node)
      [] node.k = "ExpressionStatement" -> visitExpressionStatement(I, node)
      [] node.k = "Block" -> visitBlockStatement(I, node)
      [] node.k = "If" -> visitIfStatement(I, node)
      [] node.k = "While" -> visitWhileStatement(I, node)
      [] node.k = "For" -> visitForStatement(I, node)
      [] node.k = "FunctionDefinition" -> visitFunctionDefinition(I, node)
      [] node.k = "Return" -> visitReturnStatement(I, node)
      [] node.k = "Break" -> visitBreakStatement(I, node)
      [] node.k = "Continue" -> visitContinueStatement(I, node)
      [] node.k = "Pass" -> visitPassStatement(I, node)

(***************************************************************************)
(* Programs handed to the interpreter, as the trees the node classes of    *)
(* ast.h build.                                                            *)
(***************************************************************************)
Id(name) == IdentifierExpression(<<name>>)
Num(n) == LiteralExpression([type |-> "INTEGER", value |-> <<ToString(n)>>])
Text(atom) == LiteralExpression([type |-> "STRING", value |-> <<atom>>])
Bin(left, operator_type, right) == BinaryExpression(left, operator_type, right)
Call(name, arguments) == CallExpression(Id(name), arguments)
Set(name, value) == ExpressionStatement(AssignmentExpression(Id(name), value))
Do(e) == ExpressionStatement(e)
Show(arguments) == Do(Call("print", arguments))
If(condition, statements) == IfStatement(condition, BlockStatement(statements), Null)
While(condition, statements) == WhileStatement(condition, BlockStatement(statements))
For(variable, iterable, statements) ==
    ForStatement(<<variable>>, iterable, BlockStatement(statements))
Def(name, parameters, statements) ==
    FunctionDefinition(<<name>>, parameters, BlockStatement(statements))
Param(name) == Parameter(<<name>>, Null)
Return(value) == ReturnStatement(value)

\* a line print writes for integers
RECURSIVE Line(_)
Line(ns) ==
    IF ns = <<>> THEN <<>>
    ELSE <<ToString(Head(ns))>> \o (IF Len(ns) > 1 THEN <<" ">> ELSE <<>>) \o Line(Tail(ns))

(***************************************************************************)
(* Two nested loops, each a while or a for, with a break or a continue in  *)
(* the inner one when its index is K, and possibly one in the outer one,   *)
(* after the inner loop, when its index is 0:                              *)
(*                                                                         *)
(*     for i in range(A):               i = 0                              *)
(*         for j in range(B):           while i < A:                       *)
(*             if j == K:                   i = i + 1                      *)
(*                 break                    j = 0                          *)
(*             print(i, j)                  while j < B:                   *)
(*         if i == 0:                           j = j + 1                  *)
(*             continue                         if j - 1 == K:             *)
(*         print(10, i)                             break                  *)
(*     print(11)                                print(i - 1, j - 1)        *)
(*                                          ...                            *)
(***************************************************************************)
MaxOuter == 2
MaxInner == 3

LoopKinds == {"while", "for"}
Signals == {BreakStatement, ContinueStatement}
OuterSignals == Signals \cup {PassStatement}

\* the index of a loop: the loop variable of a for, one less than the counter of a while
Index(kind, variable) ==
    IF kind = "for" THEN Id(variable) ELSE Bin(Id(variable), "MINUS", Num(1))

\* the statements of a loop of the kind over 0 .. (n - 1) with the body
Loop(kind, variable, n, body) ==
    IF kind = "for" THEN <<For(variable, Call("range", <<Num(n)>>), body)>>
    ELSE <<Set(variable, Num(0)),
           While(Bin(Id(variable), "LESS", Num(n)),
                 <<Set(variable, Bin(Id(variable), "PLUS", Num(1)))>> \o body)>>

LoopProgram(outer, inner, signal, outerSignal, A, B, K) ==
    Program(
        Loop(outer, "i", A,
             Loop(inner, "j", B,
                  <<If(Bin(Index(inner, "j"), "EQUAL", Num(K)), <<signal>>),
                    Show(<<Index(outer, "i"), Index(inner, "j")>>)>>)
             \o <<If(Bin(Index(outer, "i"), "EQUAL", Num(0)), <<outerSignal>>),
                  Show(<<Num(10), Index(outer, "i")>>)>>)
        \o <<Show(<<Num(11)>>)>>)

LoopParameters ==
    [outer : LoopKinds, inner : LoopKinds, signal : Signals, outerSignal : OuterSignals,
     A : 1..MaxOuter, B : 1..MaxInner, K : 0..MaxInner]

LoopProgramOf(p) == LoopProgram(p.outer, p.inner, p.signal, p.outerSignal, p.A, p.B, p.K)

LoopPrograms == {LoopProgramOf(p) : p \in LoopParameters}

(***************************************************************************)
(* A function whose return statement lies inside nested if, while and for  *)
(* blocks, each followed by a statement; the blocks are entered or not:    *)
(*                                                                         *)
(*     def f(n):                                                           *)
(*         print(1)                                                        *)
(*         while n >= 0:                                                   *)
(*             for k in range(2):                                          *)
(*                 return n + 1                                            *)
(*                 print(9)                                                *)
(*             print(9)                                                    *)
(*         print(2)                                                        *)
(*     r = f(V)                                                            *)
(*     print(r)                                                            *)
(***************************************************************************)
MaxNesting == 2
MaxValue == 2

BlockKinds == {"if", "while", "for"}
Nestings == UNION {[1..n -> BlockKinds] : n \in 0..MaxNesting}

\* the statement inside the blocks of the nesting, which are entered iff taken
RECURSIVE Nested(_, _, _)
Nested(nesting, stmt, taken) ==
    IF nesting = <<>> THEN stmt
    ELSE LET condition == Bin(Id("n"), IF taken THEN "GREATER_EQUAL" ELSE "LESS", Num(0))
             inner == <<Nested(Tail(nesting), stmt, taken), Show(<<Num(9)>>)>>
         IN CASE Head(nesting) = "if" -> If(condition, inner)
              [] Head(nesting) = "while" -> While(condition, inner)
              [] Head(nesting) = "for" ->
                    For("k", Call("range", <<Num(IF taken THEN 2 ELSE 0)>>), inner)

ReturnProgram(nesting, bare, taken, V) ==
    Program(<<
        Def("f", <<Param("n")>>,
            <<Show(<<Num(1)>>),
              Nested(nesting,
                     Return(IF bare THEN Null ELSE Bin(Id("n"), "PLUS", Num(1))),
                     taken),
              Show(<<Num(2)>>)>>),
        Set("r", Call("f", <<Num(V)>>)),
        Show(<<Id("r")>>)>>)

ReturnParameters ==
    {p \in [nesting : Nestings, bare : BOOLEAN, taken : BOOLEAN, V : 0..MaxValue] :
        p.taken \/ p.nesting # <<>>}

ReturnProgramOf(p) == ReturnProgram(p.nesting, p.bare, p.taken, p.V)

ReturnPrograms == {ReturnProgramOf(p) : p \in ReturnParameters}

(***************************************************************************)
(* A function that returns an inner function, which is then called from    *)
(* the top level and from a function with a local of the same name:        *)
(*                                                                         *)
(*     n = G                                                               *)
(*     def make_counter():                                                 *)
(*         n = L                                                           *)
(*         def inc():                                                      *)
(*             return n + 1                                                *)
(*         return inc                                                      *)
(*     def h():                                                            *)
(*         return n                                                        *)
(*     def caller():                                                       *)
(*         n = X                                                           *)
(*         print(counter())                                                *)
(*         print(h())                                                      *)
(*     counter = make_counter()                                            *)
(*     caller()                                                            *)
(*     print(counter())                                                    *)
(***************************************************************************)
ClosureProgram(G, L, X) ==
    Program(<<
        Set("n", Num(G)),
        Def("make_counter", <<>>,
            <<Set("n", Num(L)),
              Def("inc", <<>>, <<Return(Bin(Id("n"), "PLUS", Num(1)))>>),
              Return(Id("inc"))>>),
        Def("h", <<>>, <<Return(Id("n"))>>),
        Def("caller", <<>>,
            <<Set("n", Num(X)),
              Show(<<Call("counter", <<>>)>>),
              Show(<<Call("h", <<>>)>>)>>),
        Set("counter", Call("make_counter", <<>>)),
        Do(Call("caller", <<>>)),
        Show(<<Call("counter", <<>>)>>)>>)

ClosureParameters == [G : 0..MaxValue, L : 0..MaxValue, X : 0..MaxValue]

ClosureProgramOf(p) == ClosureProgram(p.G, p.L, p.X)

ClosurePrograms == {ClosureProgramOf(p) : p \in ClosureParameters}

(***************************************************************************)
(* A function with formals p1, p2, ..., some of them with the default 5,   *)
(* called with some number of actuals:                                     *)
(*                                                                         *)
(*     def f(p1, p2 = 5):                                                  *)
(*         print(7)                                                        *)
(*     print(0)                                                            *)
(*     f(1, 1, 1)                                                          *)
(*     print(8)                                                            *)
(***************************************************************************)
MaxFormals == 2

\* which formals have a default
Formals == UNION {[1..n -> BOOLEAN] : n \in 0..MaxFormals}

ArityProgram(formals, actuals) ==
    Program(<<
        Def("f",
            [i \in 1..Len(formals) |->
                Parameter(<<"p" \o ToString(i)>>, IF formals[i] THEN Num(5) ELSE Null)],
            <<Show(<<Num(7)>>)>>),
        Show(<<Num(0)>>),
        Do(Call("f", [i \in 1..actuals |-> Num(1)])),
        Show(<<Num(8)>>)>>)

ArityParameters == [formals : Formals, actuals : 0..(MaxFormals + 1)]

ArityProgramOf(p) == ArityProgram(p.formals, p.actuals)

ArityPrograms == {ArityProgramOf(p) : p \in ArityParameters}

(***************************************************************************)
(* A function whose second formal has a default, called with and without   *)
(* the second actual, from the top level and from a function with a local  *)
(* k.  The default is the literal 5, the free variable k, the earlier      *)
(* formal a (with or without a global a), or the assignment k = k + 1:     *)
(*                                                                         *)
(*     k = G                                                               *)
(*     a = 9                                                               *)
(*     def g(a, b = k):                                                    *)
(*         return a + b                                                    *)
(*     def caller():                                                       *)
(*         k = X                                                           *)
(*         return g(3)                                                     *)
(*     print(g(3))                                                         *)
(*     print(g(3, 4))                                                      *)
(*     k = k + 1                                                           *)
(*     print(g(3))                                                         *)
(*     print(caller())                                                     *)
(***************************************************************************)
DefaultKinds == {"literal", "free", "formal", "undefined", "count"}

DefaultValue(kind) ==
    CASE kind = "literal" -> Num(5)
      [] kind = "free" -> Id("k")
      [] kind \in {"formal", "undefined"} -> Id("a")
      [] kind = "count" -> AssignmentExpression(Id("k"), Bin(Id("k"), "PLUS", Num(1)))

DefaultProgram(kind, G, X) ==
    Program(
        <<Set("k", Num(G))>>
        \o (IF kind = "formal" THEN <<Set("a", Num(9))>> ELSE <<>>)
        \o <<Def("g", <<Param("a"), Parameter(<<"b">>, DefaultValue(kind))>>,
                 <<Return(Bin(Id("a"), "PLUS", Id("b")))>>),
             Def("caller", <<>>,
                 <<Set("k", Num(X)), Return(Call("g", <<Num(3)>>))>>),
             Show(<<Call("g", <<Num(3)>>)>>),
             Show(<<Call("g", <<Num(3), Num(4)>>)>>),
             Set("k", Bin(Id("k"), "PLUS", Num(1))),
             Show(<<Call("g", <<Num(3)>>)>>),
             Show(<<Call("caller", <<>>)>>)>>)

DefaultParameters == [kind : DefaultKinds, G : 0..MaxValue, X : 0..MaxValue]

DefaultProgramOf(p) == DefaultProgram(p.kind, p.G, p.X)

DefaultPrograms == {DefaultProgramOf(p) : p \in DefaultParameters}

(***************************************************************************)
(* Assignments to x at the top level, in a function, and in a function     *)
(* defined in that function and called after it has returned:              *)
(*                                                                         *)
(*     x = G                                                               *)
(*     def outer():                                                        *)
(*         x = L1                                                          *)
(*         def inner():                                                    *)
(*             x = L2                                                      *)
(*             return x                                                    *)
(*         return inner                                                    *)
(*     c = outer()                                                         *)
(*     r = c()                                                             *)
(*     def setx():                                                         *)
(*         x = L2                                                          *)
(*     setx()                                                              *)
(*     print(x, r)                                                         *)
(***************************************************************************)
FrameProgram(G, L1, L2) ==
    Program(<<
        Set("x", Num(G)),
        Def("outer", <<>>,
            <<Set("x", Num(L1)),
              Def("inner", <<>>, <<Set("x", Num(L2)), Return(Id("x"))>>),
              Return(Id("inner"))>>),
        Set("c", Call("outer", <<>>)),
        Set("r", Call("c", <<>>)),
        Def("setx", <<>>, <<Set("x", Num(L2))>>),
        Do(Call("setx", <<>>)),
        Show(<<Id("x"), Id("r")>>)>>)

FrameParameters == [G : 0..MaxValue, L1 : 0..MaxValue, L2 : 0..MaxValue]

FrameProgramOf(p) == FrameProgram(p.G, p.L1, p.L2)

FramePrograms == {FrameProgramOf(p) : p \in FrameParameters}

(***************************************************************************)
(* An assignment followed by a read of its target, at the top level or in  *)
(* a function; y is bound before:                                          *)
(*                                                                         *)
(*     y = 4                       y = 4                                   *)
(*     x = E                       def f():                                *)
(*     x                               x = E                               *)
(*                                     return x                            *)
(*                                 f()                                     *)
(***************************************************************************)
AssignNames == {"x", "y", "len", "print"}

\* expressions without side effects
Expressions ==
    <<Num(3),
      Bin(Id("y"), "PLUS", Num(1)),
      Bin(Num(1), "LESS", Num(2)),
      Text("a"),
      Id("len"),
      Bin(Num(1), "DIVIDE", Num(2)),
      UnaryExpression("MINUS", Num(2)),
      Bin(Text("a"), "PLUS", Text("b"))>>

AssignProgram(name, E, inFunction) ==
    Program(
        <<Set("y", Num(4))>>
        \o (IF inFunction
            THEN <<Def("f", <<>>, <<Set(name, Expressions[E]), Return(Id(name))>>),
                   Do(Call("f", <<>>))>>
            ELSE <<Set(name, Expressions[E]), Do(Id(name))>>))

AssignParameters == [name : AssignNames, E : 1..Len(Expressions), inFunction : BOOLEAN]

AssignProgramOf(p) == AssignProgram(p.name, p.E, p.inFunction)

AssignPrograms == {AssignProgramOf(p) : p \in AssignParameters}

(***************************************************************************)
(* r = L and R, or r = L or R, followed by print(r).  An operand is a      *)
(* number, a string, a comparison, a call of print (which writes 1 as the  *)
(* left and 2 as the right operand, and yields None), an assignment to k,  *)
(* or a variable that is not defined.                                      *)
(***************************************************************************)
OperandKinds == {"zero", "two", "string", "less", "print", "assign", "undefined"}

Operand(kind, side) ==
    CASE kind = "zero" -> Num(0)
      [] kind = "two" -> Num(2)
      [] kind = "string" -> Text("a")
      [] kind = "less" -> Bin(Num(side), "LESS", Num(2))
      [] kind = "print" -> Call("print", <<Num(side)>>)
      [] kind = "assign" -> AssignmentExpression(Id("k"), Num(side))
      [] kind = "undefined" -> Id("u")

LogicProgram(op, left, right) ==
    Program(<<Set("r", Bin(Operand(left, 1), op, Operand(right, 2))),
              Show(<<Id("r")>>)>>)

LogicParameters == [op : {"AND", "OR"}, left : OperandKinds, right : OperandKinds]

LogicProgramOf(p) == LogicProgram(p.op, p.left, p.right)

LogicPrograms == {LogicProgramOf(p) : p \in LogicParameters}

(***************************************************************************)
(* A Boolean literal, as Parser::primary builds it from the BOOLEAN token, *)
(* assigned and used as the condition of an if with or without else:       *)
(*                                                                         *)
(*     r = False                                                           *)
(*     if False:                                                           *)
(*         print(1)                                                        *)
(*     else:                                                               *)
(*         print(2)                                                        *)
(***************************************************************************)
Boolean(lexeme) == LiteralExpression([type |-> "BOOLEAN", value |-> <<lexeme>>])

BooleanProgram(lexeme, withElse) ==
    Program(<<Set("r", Boolean(lexeme)),
              IfStatement(Boolean(lexeme), BlockStatement(<<Show(<<Num(1)>>)>>),
                          IF withElse THEN BlockStatement(<<Show(<<Num(2)>>)>>) ELSE Null)>>)

BooleanParameters == [lexeme : {"True", "False"}, withElse : BOOLEAN]

BooleanProgramOf(p) == BooleanProgram(p.lexeme, p.withElse)

BooleanPrograms == {BooleanProgramOf(p) : p \in BooleanParameters}

(***************************************************************************)
(* A division or a modulo whose operands are assignments of numbers:       *)
(*                                                                         *)
(*     r = (a = 6) / (b = 0)                                               *)
(***************************************************************************)
Real(whole, fraction) ==
    LiteralExpression([type |-> "FLOAT",
                       value |-> <<ToString(whole), ".", ToString(fraction)>>])

\* the numbers of the programs: 6, 1.5, 0, 0.0, 3, 0.5
Numbers == <<Num(6), Real(1, 5), Num(0), Real(0, 0), Num(3), Real(0, 5)>>

DivisionProgram(op, left, right) ==
    Program(<<Set("r", Bin(AssignmentExpression(Id("a"), Numbers[left]), op,
                           AssignmentExpression(Id("b"), Numbers[right])))>>)

DivisionParameters ==
    [op : {"DIVIDE", "MODULO"}, left : 1..Len(Numbers), right : 1..Len(Numbers)]

DivisionProgramOf(p) == DivisionProgram(p.op, p.left, p.right)

DivisionPrograms == {DivisionProgramOf(p) : p \in DivisionParameters}

(***************************************************************************)
(* A break or a continue outside every loop: as a statement of the top     *)
(* level, in an if at the top level, or in a function called from the top  *)
(* level:                                                                  *)
(*                                                                         *)
(*     print(1)                                                            *)
(*     break                                                               *)
(*     print(2)                                                            *)
(***************************************************************************)
SignalPlaces == {"top", "if", "call"}

SignalProgram(signal, place) ==
    Program(CASE place = "top" -> <<Show(<<Num(1)>>), signal, Show(<<Num(2)>>)>>
              [] place = "if" ->
                    <<Show(<<Num(1)>>), If(Num(1), <<signal>>), Show(<<Num(2)>>)>>
              [] place = "call" ->
                    <<Def("f", <<>>, <<signal>>), Show(<<Num(1)>>), Do(Call("f", <<>>)),
                      Show(<<Num(2)>>)>>)

SignalParameters == [signal : {BreakStatement, ContinueStatement}, place : SignalPlaces]

SignalProgramOf(p) == SignalProgram(p.signal, p.place)

SignalPrograms == {SignalProgramOf(p) : p \in SignalParameters}

(***************************************************************************)
(* A for loop over range with one, two or three arguments, whose body      *)
(* prints the variable and then, in half of the programs, rebinds it:      *)
(*                                                                         *)
(*     for v in range(3, 15, 2):                                           *)
(*         print(v)                                                        *)
(*         v = 0                                                           *)
(*     print(9)                                                            *)
(***************************************************************************)
RangeStarts == {0 - 2, 0, 3, IntMax - 1, IntMax + 2}
RangeStops == {0 - 3, 0, 4, IntMax, IntMax + 3}
RangeSteps == {1, 2, 3}

\* an integer as the parser builds it: a literal, negated when below zero
Signed(n) == IF n < 0 THEN UnaryExpression("MINUS", Num(0 - n)) ELSE Num(n)

RangeProgram(arguments, rebinds) ==
    Program(<<For("v", Call("range", [i \in 1..Len(arguments) |-> Signed(arguments[i])]),
                  <<Show(<<Id("v")>>)>> \o (IF rebinds THEN <<Set("v", Num(0))>> ELSE <<>>)),
              Show(<<Num(9)>>)>>)

RangeArguments ==
    {<<stop>> : stop \in RangeStops}
    \cup {<<start, stop>> : start \in RangeStarts, stop \in RangeStops}
    \cup {<<start, stop, step>> :
            start \in RangeStarts, stop \in RangeStops, step \in RangeSteps}

RangeParameters == [arguments : RangeArguments, rebinds : BOOLEAN]

RangeProgramOf(p) == RangeProgram(p.arguments, p.rebinds)

RangePrograms == {RangeProgramOf(p) : p \in RangeParameters}

(***************************************************************************)
(* A call of a value that is neither a function nor a built-in: the value  *)
(* is bound to c and c is called, or the expression is called directly:    *)
(*                                                                         *)
(*     c = 3                                                               *)
(*     print(1)                                                            *)
(*     c(5)                                                                *)
(*     print(2)                                                            *)
(***************************************************************************)
\* an expression whose token kind is String, with the characters of the atoms
Str(atoms) == LiteralExpression([type |-> "STRING", value |-> atoms])

CalleeKinds == {"None", "Bool", "Int", "Float", "String", "empty", "prefix", "range",
                "builtin"}

\* the callee: None is what print returns; the last three are strings a program writes
\* that begin with the prefix of a sentinel
Callee(kind) ==
    CASE kind = "None" -> Call("print", <<>>)
      [] kind = "Bool" -> Bin(Num(1), "LESS", Num(2))
      [] kind = "Int" -> Num(3)
      [] kind = "Float" -> Real(1, 5)
      [] kind = "String" -> Str(<<"a">>)
      [] kind = "empty" -> Str(<<>>)
      [] kind = "prefix" -> Str(<<"__builtin_", "a">>)
      [] kind = "range" -> Str(<<"__range_", "0", "_", "3", "_", "1">>)
      [] kind = "builtin" -> Str(<<"__builtin_", "print">>)

CalleeProgram(kind, direct) ==
    Program((IF direct THEN <<>> ELSE <<Set("c", Callee(kind))>>)
            \o <<Show(<<Num(1)>>),
                 Do(CallExpression(IF direct THEN Callee(kind) ELSE Id("c"), <<Num(5)>>)),
                 Show(<<Num(2)>>)>>)

CalleeParameters == [kind : CalleeKinds, direct : BOOLEAN]

CalleeProgramOf(p) == CalleeProgram(p.kind, p.direct)

CalleePrograms == {CalleeProgramOf(p) : p \in CalleeParameters}

(***************************************************************************)
(* A unary operator on a value of each arm: the value is bound to e, and   *)
(* r to the operator applied to e:                                         *)
(*                                                                         *)
(*     e = 3                                                               *)
(*     r = not e                                                           *)
(***************************************************************************)
UnaryOperandKinds == {"None", "Bool", "Int", "zero", "Float", "String", "Function"}

UnaryOperand(kind) ==
    CASE kind = "None" -> Call("print", <<>>)
      [] kind = "Bool" -> Bin(Num(1), "LESS", Num(2))
      [] kind = "Int" -> Num(3)
      [] kind = "zero" -> Num(0)
      [] kind = "Float" -> Real(1, 5)
      [] kind = "String" -> Str(<<"a">>)
      [] kind = "Function" -> Id("f")

UnaryProgram(op, kind) ==
    Program(<<Def("f", <<>>, <<Return(Num(1))>>),
              Set("e", UnaryOperand(kind)),
              Set("r", UnaryExpression(op, Id("e")))>>)

UnaryParameters == [op : {"NOT", "MINUS"}, kind : UnaryOperandKinds]

UnaryProgramOf(p) == UnaryProgram(p.op, p.kind)

UnaryPrograms == {UnaryProgramOf(p) : p \in UnaryParameters}

(***************************************************************************)
(* A for loop over a range with a negative step:                           *)
(*                                                                         *)
(*     for v in range(0, 4, -1):                                           *)
(*         print(v)                                                        *)
(*     print(9)                                                            *)
(***************************************************************************)
DescendingSteps == {0 - 1, 0 - 2}

DescendingParameters ==
    [start : {0 - 2, 0, 3}, stop : {0 - 3, 0, 4}, step : DescendingSteps]

DescendingProgramOf(p) == RangeProgram(<<p.start, p.stop, p.step>>, FALSE)

DescendingPrograms == {DescendingProgramOf(p) : p \in DescendingParameters}

(***************************************************************************)
(* A for loop whose iterable is not a value returned by range.  The value  *)
(* is bound to e first; v is bound before the loop in half the programs:   *)
(*                                                                         *)
(*     e = 3                                                               *)
(*     k = 1                                                               *)
(*     v = 7                                                               *)
(*     for v in e:                                                         *)
(*         k = 2                                                           *)
(*         print(v)                                                        *)
(***************************************************************************)
IterableKinds == {"None", "Bool", "Int", "Float", "String", "empty", "list", "prefix",
                  "letters", "range"}

\* "list" is the string visit(ListExpression&) yields; the last three are strings a
\* program writes that begin with the prefix of the sentinel of range
Iterable(kind) ==
    CASE kind = "None" -> Call("print", <<>>)
      [] kind = "Bool" -> Bin(Num(1), "LESS", Num(2))
      [] kind = "Int" -> Num(3)
      [] kind = "Float" -> Real(1, 5)
      [] kind = "String" -> Str(<<"a">>)
      [] kind = "empty" -> Str(<<>>)
      [] kind = "list" -> Str(<<"[list]">>)
      [] kind = "prefix" -> Str(<<"__range_", "x">>)
      [] kind = "letters" -> Str(<<"__range_", "a", "_", "b", "_", "c">>)
      [] kind = "range" -> Str(<<"__range_", "0", "_", "3", "_", "1">>)

IterableProgram(kind, bound) ==
    Program(<<Set("e", Iterable(kind)), Set("k", Num(1))>>
            \o (IF bound THEN <<Set("v", Num(7))>> ELSE <<>>)
            \o <<For("v", Id("e"), <<Set("k", Num(2)), Show(<<Id("v")>>)>>)>>)

IterableParameters == [kind : IterableKinds, bound : BOOLEAN]

IterableProgramOf(p) == IterableProgram(p.kind, p.bound)

IterablePrograms == {IterableProgramOf(p) : p \in IterableParameters}

(***************************************************************************)
(* An identifier that names a built-in, read where the name is not bound,  *)
(* after an assignment or a def of that name, and in a function where the  *)
(* name is a local or a parameter:                                         *)
(*                                                                         *)
(*     len = 3                                                             *)
(*     r = len                                                             *)
(***************************************************************************)
BuiltinBindings == {"none", "assign", "def", "local", "parameter"}

BuiltinProgram(name, binding) ==
    Program(CASE binding = "none" -> <<Set("r", Id(name))>>
              [] binding = "assign" -> <<Set(name, Num(3)), Set("r", Id(name))>>
              [] binding = "def" ->
                    <<Def(name, <<>>, <<Return(Num(1))>>), Set("r", Id(name))>>
              [] binding = "local" ->
                    <<Def("g", <<>>, <<Set(name, Num(3)), Return(Id(name))>>),
                      Set("r", Call("g", <<>>))>>
              [] binding = "parameter" ->
                    <<Def("g", <<Param(name)>>, <<Return(Id(name))>>),
                      Set("r", Call("g", <<Num(3)>>))>>)

BuiltinParameters == [name : {n[1] : n \in BuiltinNames}, binding : BuiltinBindings]

BuiltinProgramOf(p) == BuiltinProgram(p.name, p.binding)

BuiltinPrograms == {BuiltinProgramOf(p) : p \in BuiltinParameters}

(***************************************************************************)
(* A runtime diagnostic raised at the top level, in an if block, in a      *)
(* while or for loop, in a function, in a function called from a loop and  *)
(* in a default value, between statements that print and bind:             *)
(*                                                                         *)
(*     def g():                                                            *)
(*         print(3)                                                        *)
(*         d = u                                                           *)
(*         print(8)                                                        *)
(*     b = 1                                                               *)
(*     print(1)                                                            *)
(*     while 1:                                                            *)
(*         g()                                                             *)
(*         print(8)                                                        *)
(*     print(9)                                                            *)
(*     c = 2                                                               *)
(***************************************************************************)
DiagnosticCauses == {"undefined", "zero", "callee", "arity", "operands"}
DiagnosticSites == {"top", "if", "while", "for", "call", "loopcall", "default"}

\* an expression whose evaluation throws RuntimeError
Faulty(cause) ==
    CASE cause = "undefined" -> Id("u")
      [] cause = "zero" -> Bin(Num(1), "DIVIDE", Num(0))
      [] cause = "callee" -> CallExpression(Num(3), <<>>)
      [] cause = "arity" -> Call("n", <<Num(1)>>)
      [] cause = "operands" -> Bin(Num(1), "MINUS", Text("a"))

DiagnosticProgram(cause, site) ==
    LET body == <<Show(<<Num(3)>>), Set("d", Faulty(cause)), Show(<<Num(8)>>)>>
        construct ==
            CASE site = "top" -> Set("d", Faulty(cause))
              [] site = "if" -> If(Num(1), body)
              [] site = "while" -> While(Num(1), body)
              [] site = "for" -> For("v", Call("range", <<Num(3)>>), body)
              [] site = "call" -> Do(Call("g", <<>>))
              [] site = "loopcall" ->
                    While(Num(1), <<Do(Call("g", <<>>)), Show(<<Num(8)>>)>>)
              [] site = "default" -> Do(Call("h", <<>>))
    IN  Program(<<Def("n", <<>>, <<Return(Num(1))>>),
                  Def("g", <<>>, body),
                  Def("h", <<Parameter(<<"a">>, Faulty(cause))>>, <<Show(<<Num(8)>>)>>),
                  Set("b", Num(1)), Show(<<Num(1)>>), construct,
                  Show(<<Num(9)>>), Set("c", Num(2))>>)

DiagnosticParameters == [cause : DiagnosticCauses, site : DiagnosticSites]

DiagnosticProgramOf(p) == DiagnosticProgram(p.cause, p.site)

DiagnosticPrograms == {DiagnosticProgramOf(p) : p \in DiagnosticParameters}

(***************************************************************************)
(* Expressions whose operands and arguments have effects: t(n) prints n    *)
(* and returns it, an assignment in brackets rebinds a name that the other *)
(* operand reads, and the callee of a call is itself a call:               *)
(*                                                                         *)
(*     def t(n):                                                           *)
(*         print(n)                                                        *)
(*         return n                                                        *)
(*     def f(a, b, c):                                                     *)
(*         print(0)                                                        *)
(*     def pick():                                                         *)
(*         print(7)                                                        *)
(*         return f                                                        *)
(*     pick()(t(1), t(2), t(3))                                            *)
(***************************************************************************)
OrderOperators == {"PLUS", "MINUS", "MULTIPLY", "LESS", "EQUAL", "AND", "OR"}
OrderShapes == {"binary", "nested", "readThenBind", "bindThenRead", "arguments",
                "callee", "calleeRebound", "print", "block"}

T(n) == Call("t", <<Num(n)>>)

OrderProgram(shape, operator) ==
    Program(<<Def("t", <<Param("n")>>, <<Show(<<Id("n")>>), Return(Id("n"))>>),
              Def("f", <<Param("a"), Param("b"), Param("c")>>, <<Show(<<Num(0)>>)>>),
              Def("g", <<Param("a")>>, <<Show(<<Num(8)>>)>>),
              Def("h", <<Param("a")>>, <<Show(<<Num(9)>>)>>),
              Def("pick", <<>>, <<Show(<<Num(7)>>), Return(Id("f"))>>),
              Set("x", Num(1))>>
            \o CASE shape = "binary" -> <<Set("r", Bin(T(1), operator, T(2)))>>
                 [] shape = "nested" ->
                       <<Set("r", Bin(Bin(T(1), "PLUS", T(2)), operator,
                                      Bin(T(3), "PLUS", T(4))))>>
                 [] shape = "readThenBind" ->
                       <<Set("r", Bin(Id("x"), "PLUS",
                                      AssignmentExpression(Id("x"), Num(5))))>>
                 [] shape = "bindThenRead" ->
                       <<Set("r", Bin(AssignmentExpression(Id("x"), Num(5)), "PLUS",
                                      Id("x")))>>
                 [] shape = "arguments" -> <<Do(Call("f", <<T(1), T(2), T(3)>>))>>
                 [] shape = "callee" ->
                       <<Do(CallExpression(Call("pick", <<>>), <<T(1), T(2), T(3)>>))>>
                 [] shape = "calleeRebound" ->
                       <<Do(Call("g", <<AssignmentExpression(Id("g"), Id("h"))>>)),
                         Do(Call("g", <<Num(1)>>))>>
                 [] shape = "print" -> <<Show(<<T(1), Bin(T(2), operator, T(3))>>)>>
                 [] shape = "block" ->
                       <<If(Num(1), <<Show(<<Num(1)>>), Set("x", Num(2)),
                                      Show(<<Id("x")>>), Set("x", Num(3))>>),
                         Show(<<Id("x")>>)>>)

OrderParameters == [shape : OrderShapes, operator : OrderOperators]

OrderProgramOf(p) == OrderProgram(p.shape, p.operator)

OrderPrograms == {OrderProgramOf(p) : p \in OrderParameters}

(***************************************************************************)
(* The six comparisons of two integers, each bound to a name:              *)
(*                                                                         *)
(*     a = -2                                                              *)
(*     b = 1                                                               *)
(*     eq = a == b                                                         *)
(*     ne = a != b                                                         *)
(*     lt = a < b                                                          *)
(*     le = a <= b                                                         *)
(*     gt = a > b                                                          *)
(*     ge = a >= b                                                         *)
(***************************************************************************)
CompareValues == {0 - MaxInt, 0 - 2, 0 - 1, 0, 1, 2, MaxInt}

CompareProgram(a, b) ==
    Program(<<Set("a", Signed(a)), Set("b", Signed(b)),
              Set("eq", Bin(Id("a"), "EQUAL", Id("b"))),
              Set("ne", Bin(Id("a"), "NOT_EQUAL", Id("b"))),
              Set("lt", Bin(Id("a"), "LESS", Id("b"))),
              Set("le", Bin(Id("a"), "LESS_EQUAL", Id("b"))),
              Set("gt", Bin(Id("a"), "GREATER", Id("b"))),
              Set("ge", Bin(Id("a"), "GREATER_EQUAL", Id("b")))>>)

CompareParameters == [a : CompareValues, b : CompareValues]

CompareProgramOf(p) == CompareProgram(p.a, p.b)

ComparePrograms == {CompareProgramOf(p) : p \in CompareParameters}

(***************************************************************************)
(* abs of an integer, of a float, of a value of another arm, and with no   *)
(* or two arguments; the smallest integer is reached by a subtraction:     *)
(*                                                                         *)
(*     x = -20 - 1                                                         *)
(*     r = abs(x)                                                          *)
(***************************************************************************)
AbsIntegers == {Int64Min, 0 - MaxInt, 0 - 2, 0 - 1, 0, 1, 2, MaxInt}
AbsFloats == {"Float", "negative"}
AbsOthers == {"None", "Bool", "String", "Function"}
AbsCounts == {"none", "two"}
AbsOperand(kind, x) ==
    CASE kind = "Int" ->
            IF x = Int64Min THEN Bin(Signed(0 - MaxInt), "MINUS", Num(1)) ELSE Signed(x)
      [] kind = "negative" -> Bin(Num(0), "MINUS", Real(1, 5))
      [] kind \in AbsCounts -> Num(1)
      [] OTHER -> UnaryOperand(kind)

AbsProgram(kind, x) ==
    Program(<<Def("f", <<>>, <<Return(Num(1))>>),
              Set("x", AbsOperand(kind, x)),
              Set("r", Call("abs", CASE kind = "none" -> <<>>
                                     [] kind = "two" -> <<Id("x"), Id("x")>>
                                     [] OTHER -> <<Id("x")>>))>>)

AbsParameters ==
    [kind : {"Int"}, x : AbsIntegers]
    \cup [kind : AbsFloats \cup AbsOthers \cup AbsCounts, x : {0}]

AbsProgramOf(p) == AbsProgram(p.kind, p.x)

AbsPrograms == {AbsProgramOf(p) : p \in AbsParameters}

(***************************************************************************)
(* Calls of a function h whose closure is the environment of a call of     *)
(* outer, from a loop in a function g and from a loop at the top level; h  *)
(* ends normally, by return, by a break or continue outside a loop, by a   *)
(* diagnostic in its body, or while its default value is evaluated (by a   *)
(* diagnostic, or by the break of a function the default value calls):     *)
(*                                                                         *)
(*     def b():                                                            *)
(*         break                                                           *)
(*     def outer():                                                        *)
(*         y = 7                                                           *)
(*         def h(a = b()):                                                 *)
(*             return 1                                                    *)
(*         return h                                                        *)
(*     c = outer()                                                         *)
(*     def g():                                                            *)
(*         x = 1                                                           *)
(*         while x < 2:                                                    *)
(*             x = x + 1                                                   *)
(*             c()                                                         *)
(*         print(x)                                                        *)
(*     g()                                                                 *)
(*     k = 0                                                               *)
(*     while k < 1:                                                        *)
(*         k = k + 1                                                       *)
(*         c()                                                             *)
(*     z = 5                                                               *)
(*     print(z)                                                            *)
(***************************************************************************)
CallPaths == {"normal", "return", "break", "continue", "diagnostic", "default",
              "defaultBreak"}

CallPathBody(path) ==
    CASE path = "normal" -> <<Set("w", Num(1))>>
      [] path = "break" -> <<BreakStatement>>
      [] path = "continue" -> <<ContinueStatement>>
      [] path = "diagnostic" -> <<Set("w", Id("u"))>>
      [] OTHER -> <<Return(Num(1))>>

CallPathDefault(path) ==
    CASE path = "default" -> Id("u")
      [] path = "defaultBreak" -> Call("b", <<>>)
      [] OTHER -> Num(1)

CallPathProgram(path, fromFunction) ==
    Program(<<Def("b", <<>>, <<BreakStatement>>),
              Def("outer", <<>>,
                  <<Set("y", Num(7)),
                    Def("h", <<Parameter(<<"a">>, CallPathDefault(path))>>,
                        CallPathBody(path)),
                    Return(Id("h"))>>),
              Set("c", Call("outer", <<>>)),
              Def("g", <<>>,
                  <<Set("x", Num(1)),
                    While(Bin(Id("x"), "LESS", Num(2)),
                          <<Set("x", Bin(Id("x"), "PLUS", Num(1))),
                            Do(Call("c", <<>>))>>),
                    Show(<<Id("x")>>)>>)>>
            \o (IF fromFunction THEN <<Do(Call("g", <<>>))>> ELSE <<>>)
            \o <<Set("k", Num(0)),
                 While(Bin(Id("k"), "LESS", Num(1)),
                       <<Set("k", Bin(Id("k"), "PLUS", Num(1))), Do(Call("c", <<>>))>>),
                 Set("z", Num(5)),
                 Show(<<Id("z")>>)>>)

CallPathParameters == [path : CallPaths, fromFunction : BOOLEAN]

CallPathProgramOf(p) == CallPathProgram(p.path, p.fromFunction)

CallPathPrograms == {CallPathProgramOf(p) : p \in CallPathParameters}

(***************************************************************************)
(* A break or continue outside every loop of a function, which is called   *)
(* (directly, or through another function) from a loop of the caller:      *)
(*                                                                         *)
(*     def e():                                                            *)
(*         break                                                           *)
(*     def f():                                                            *)
(*         e()                                                             *)
(*     i = 0                                                               *)
(*     while i < 3:                                                        *)
(*         i = i + 1                                                       *)
(*         f()                                                             *)
(*         print(i)                                                        *)
(*     print(9)                                                            *)
(***************************************************************************)
CrossingProgram(signal, loop, nested) ==
    Program(<<Def("e", <<>>, <<signal>>),
              Def("f", <<>>, IF nested THEN <<Do(Call("e", <<>>))>> ELSE <<signal>>),
              Set("i", Num(0)),
              IF loop = "while"
              THEN While(Bin(Id("i"), "LESS", Num(3)),
                         <<Set("i", Bin(Id("i"), "PLUS", Num(1))),
                           Do(Call("f", <<>>)), Show(<<Id("i")>>)>>)
              ELSE For("i", Call("range", <<Num(1), Num(4)>>),
                       <<Do(Call("f", <<>>)), Show(<<Id("i")>>)>>),
              Show(<<Num(9)>>)>>)

CrossingParameters ==
    [signal : {BreakStatement, ContinueStatement}, loop : {"while", "for"},
     nested : BOOLEAN]

CrossingProgramOf(p) == CrossingProgram(p.signal, p.loop, p.nested)

CrossingPrograms == {CrossingProgramOf(p) : p \in CrossingParameters}

(***************************************************************************)
(* The interpreter as a state machine: Interpreter::interpret on a         *)
(* program, one step for each statement of the loop of visit(Program&),    *)
(* and one for the return of interpret.                                    *)
(***************************************************************************)
Programs == LoopPrograms \cup ReturnPrograms \cup ClosurePrograms
            \cup ArityPrograms \cup DefaultPrograms \cup FramePrograms
            \cup AssignPrograms \cup LogicPrograms \cup BooleanPrograms
            \cup DivisionPrograms \cup SignalPrograms \cup RangePrograms
            \cup CalleePrograms
            \cup UnaryPrograms
            \cup DescendingPrograms
            \cup IterablePrograms
            \cup BuiltinPrograms
            \cup DiagnosticPrograms
            \cup OrderPrograms
            \cup ComparePrograms
            \cup AbsPrograms
            \cup CallPathPrograms
            \cup CrossingPrograms

InitInterp ==
    /\ program \in Programs
    /\ \E outcome \in {"wraps", "traps"} :
          interp = [NewInterpreter EXCEPT !.signed_overflow = outcome]
    /\ pc = "interpret"
    /\ lexer = Null
    /\ tokens = <<>>
    /\ driver = Null

\* one iteration of the loop of visit(Program&)
ProgramStatement ==
    /\ pc = "interpret"
    /\ interp.exc.type = "none"
    /\ interp.next <= Len(program.statements)
    /\ interp' = [accept(interp, program.statements[interp.next]) EXCEPT !.next = @ + 1]
    /\ UNCHANGED <<lexer, tokens, pc, program, driver>>

\* the end of interpret: the result is last_value; a RuntimeError is caught and
\* reported on std::cerr; any other exception leaves interpret
InterpretReturn ==
    /\ pc = "interpret"
    /\ interp.exc.type # "none" \/ interp.next > Len(program.statements)
    /\ interp' = CASE interp.exc.type = "none" ->
                        [interp EXCEPT !.result = interp.last_value]
                   [] interp.exc.type = "RuntimeError" ->
                        [interp EXCEPT !.err = Append(@, "Runtime Error"),
                                       !.exc = NoException]
                   [] OTHER -> interp
    /\ pc' = CASE interp.exc.type \in {"none", "RuntimeError"} -> "returned"
               [] interp.exc.type = "Cutoff" -> "cutoff"
               [] OTHER -> "uncaught"
    /\ UNCHANGED <<lexer, tokens, program, driver>>

NextInterp == ProgramStatement \/ InterpretReturn

SpecInterp == InitInterp /\ [][NextInterp]_vars

(***************************************************************************)
(* The driver (main.cpp), from the point where the options are read and    *)
(* the file is in memory: tokenize, stop there with --tokens, parse, stop   *)
(* there with --parse, interpret with --interpret, and return the exit      *)
(* code.  exit_code is Running until main returns.                          *)
(***************************************************************************)
Running == 0 - 1

\* sources of the driver: clean runs, runtime diagnostics, a lexer and a parser
\* diagnostic, the empty file, and a return outside a function
SrcPrint == Ln(0, <<"print", "(", "1", ")">>)
SrcTwoLines == Ln(0, <<"x", " ", "=", " ", "2">>) \o Ln(0, <<"print", "(", "x", " ", "+", " ", "1", ")">>)
SrcDivideByZero == Ln(0, <<"print", "(", "1", ")">>) \o Ln(0, <<"x", " ", "=", " ", "1", " ", "/", " ", "0">>)
SrcUndefinedName == Ln(0, <<"print", "(", "y", ")">>)
SrcTopReturn == Ln(0, <<"return", " ", "1">>)
\* print(1), then return, then print(2); and a return in a top-level if block
SrcPrintReturnPrint ==
    Ln(0, <<"print", "(", "1", ")">>) \o Ln(0, <<"return">>)
      \o Ln(0, <<"print", "(", "2", ")">>)
SrcReturnInIf == Ln(0, <<"if", " ", "1", ":">>) \o Ln(1, <<"return", " ", "1">>)
TopReturnSources == {SrcTopReturn, SrcPrintReturnPrint, SrcReturnInIf}

MainSources == {SrcPrint, SrcTwoLines, SrcDivideByZero, SrcUndefinedName,
                SrcStray, SrcNoBlock, <<>>} \cup TopReturnSources

InitMain ==
    /\ \E source \in MainSources : lexer = NewLexer(source)
    /\ tokens = <<>>
    /\ pc = "tokenize"
    /\ program = Null
    /\ interp = Null
    /\ \E show_tokens \in BOOLEAN, show_parse \in BOOLEAN, interpret \in BOOLEAN :
          driver = [show_tokens |-> show_tokens, show_parse |-> show_parse,
                    interpret |-> interpret, exit_code |-> Running]

MainExit(code) ==
    /\ driver.exit_code = Running
    /\ driver' = [driver EXCEPT !.exit_code = code]
    /\ UNCHANGED <<lexer, tokens, pc, program, interp>>

\* if (show_tokens) { ...; return 0; }
MainShowTokens == pc = "tokenized" /\ driver.show_tokens /\ MainExit(0)

MainParse == ~driver.show_tokens /\ Parse

\* if (show_parse) { ...; return 0; }
MainShowParse == pc = "parsed" /\ driver.show_parse /\ MainExit(0)

\* caesar::Interpreter interpreter; interpreter.interpret(program.get());
MainInterpret ==
    /\ pc = "parsed" /\ ~driver.show_parse /\ driver.interpret
    /\ \E outcome \in {"wraps", "traps"} :
          interp' = [NewInterpreter EXCEPT !.signed_overflow = outcome]
    /\ pc' = "interpret"
    /\ UNCHANGED <<lexer, tokens, program, driver>>

\* the else branch: "Successfully parsed ...", then return 0
MainParsedOnly ==
    pc = "parsed" /\ ~driver.show_parse /\ ~driver.interpret /\ MainExit(0)

\* interpret has returned: main leaves the try block and returns 0
MainReturn == pc = "returned" /\ MainExit(0)

\* catch (const caesar::CaesarException&) and catch (const std::exception&): return 1
MainCatch ==
    /\ \/ pc \in {"LexerException", "ParserException"}
       \/ pc = "uncaught" /\ interp.exc.type # "Trap"
    /\ MainExit(1)

NextMain ==
    \/ TokenizeStep \/ TokenizeFinish \/ MainShowTokens \/ MainParse \/ MainShowParse
    \/ MainInterpret \/ MainParsedOnly \/ ProgramStatement \/ InterpretReturn
    \/ MainReturn \/ MainCatch

SpecMain == InitMain /\ [][NextMain]_vars

(***************************************************************************)
(* The round trip of the front end: a source is tokenized and parsed, the  *)
(* Program is printed with toString, and the printed text is tokenized and *)
(* parsed again.  driver keeps the first Program for the comparison.       *)
(***************************************************************************)
\* well-formed sources: the empty one, a name, every operator between two names and
\* with a prefix operator, calls, and the compound statements
SrcName == Ln(0, <<"x">>)
SrcCall == Ln(0, <<"f", "(", "a", ",", " ", "1", ")">>)
PrintSources ==
    {<<>>, SrcName, SrcCall, SrcPrint, SrcDefIfElseDef, SrcLoops, SrcTab}
    \cup {ChainSource(op, op) : op \in OperatorAtoms}
    \cup {PrefixSource(prefix, op, onLeft) :
            prefix \in PrefixAtoms, op \in OperatorAtoms, onLeft \in BOOLEAN}

InitPrint ==
    /\ \E source \in PrintSources : lexer = NewLexer(source)
    /\ tokens = <<>>
    /\ pc = "tokenize"
    /\ program = Null
    /\ interp = Null
    /\ driver = [printed |-> FALSE, first |-> Null]

\* program->toString(), and a Lexer on the text
PrintProgram ==
    /\ pc = "parsed"
    /\ ~driver.printed
    /\ driver' = [printed |-> TRUE, first |-> program]
    /\ lexer' = NewLexer(toString(program))
    /\ tokens' = <<>>
    /\ pc' = "tokenize"
    /\ program' = Null
    /\ UNCHANGED interp

NextPrint == TokenizeStep \/ TokenizeFinish \/ Parse \/ PrintProgram

SpecPrint == InitPrint /\ [][NextPrint]_vars

(***************************************************************************)
(* The front end: claims.                                                  *)
(***************************************************************************)
Tokenized == pc \in {"tokenized", "parsed", "ParserException"}

\* C1: in the stream tokenize returns, the number of INDENT tokens equals the number
\* of DEDENT tokens (a drop of k levels in one step gives k DEDENT tokens).
C1_IndentsEqualDedents ==
    Tokenized => CountType(tokens, "INDENT") = CountType(tokens, "DEDENT")

\* C2: the stream tokenize returns holds exactly one EOF token, and it is the last
\* element.
C2_ExactlyOneEofLast ==
    Tokenized =>
        /\ tokens # <<>>
        /\ Last(tokens).type = "EOF_TOKEN"
        /\ CountType(tokens, "EOF_TOKEN") = 1

\* the lines of the source that start a statement at indentation 0: the first atom of
\* the line is no space, no newline, no comment, and no else that continues an if
RECURSIVE TopLevelStarts(_, _)
TopLevelStarts(source, i) ==
    IF i > Len(source) THEN 0
    ELSE (IF /\ (i = 1 \/ source[i - 1] = "\n")
             /\ source[i] \notin {" ", "\t", "\r", "\n", "#", "else", "elif"}
          THEN 1 ELSE 0) + TopLevelStarts(source, i + 1)

\* C3: the Program parsed from a source has exactly one top-level statement per
\* statement that starts at indentation 0; a statement at indentation 0 that follows
\* a block nested two or more levels deep is a top-level entry of its own.
C3_OneTopLevelStatementPerStart ==
    pc = "parsed" => Len(program.statements) = TopLevelStarts(lexer.source_, 1)

\* some assignment of the tree has a target that is not an identifier
RECURSIVE HasOtherTarget(_)
HasOtherTarget(node) ==
    LET some(nodes) == \E i \in 1..Len(nodes) : HasOtherTarget(nodes[i]) IN
    CASE node.k = "Assignment" ->
            node.target.k # "Identifier" \/ HasOtherTarget(node.value)
      [] node.k = "Binary" -> HasOtherTarget(node.left) \/ HasOtherTarget(node.right)
      [] node.k = "Unary" -> HasOtherTarget(node.operand)
      [] node.k = "Call" -> HasOtherTarget(node.function) \/ some(node.arguments)
      [] node.k = "ExpressionStatement" -> HasOtherTarget(node.expression)
      [] node.k \in {"Block", "Program"} -> some(node.statements)
      [] node.k = "If" ->
            HasOtherTarget(node.condition) \/ HasOtherTarget(node.then_block)
            \/ HasOtherTarget(node.else_block)
      [] node.k = "While" -> HasOtherTarget(node.condition) \/ HasOtherTarget(node.body)
      [] node.k = "For" -> HasOtherTarget(node.iterable) \/ HasOtherTarget(node.body)
      [] node.k = "FunctionDefinition" -> HasOtherTarget(node.body)
      [] node.k = "Return" -> HasOtherTarget(node.value)
      [] OTHER -> FALSE

\* C14: parsing T = E where T is not a single identifier raises a parser diagnostic:
\* parse never returns a Program that holds an Assignment whose target is not an
\* Identifier.
C14_TargetIsIdentifier ==
    pc = "parsed" => ~HasOtherTarget(program) /\ lexer.source_ \notin TargetSources

\* the node of the keyword of a simple statement
SimpleNode(keyword) ==
    CASE keyword = "break" -> BreakStatement
      [] keyword = "continue" -> ContinueStatement
      [] keyword = "pass" -> PassStatement

\* the tree of SimpleSource(keyword, depth)
SimpleProgram(keyword, depth) ==
    Program(<<CASE depth = 0 -> SimpleNode(keyword)
                [] depth = 1 ->
                    WhileStatement(IdentifierExpression(<<"x">>),
                                   BlockStatement(<<SimpleNode(keyword)>>))
                [] depth = 2 ->
                    WhileStatement(IdentifierExpression(<<"x">>),
                        BlockStatement(<<IfStatement(IdentifierExpression(<<"y">>),
                                            BlockStatement(<<SimpleNode(keyword)>>),
                                            Null)>>))>>)

\* C15: a statement that is the keyword break, continue or pass, at the top level or in
\* a block, parses without a diagnostic to the Break, Continue or Pass statement node.
C15_SimpleStatementsParse ==
    \A keyword \in SimpleKeywords, depth \in 0..2 :
        (lexer.source_ = SimpleSource(keyword, depth) /\ pc \in {"parsed", "ParserException"})
            => pc = "parsed" /\ program = SimpleProgram(keyword, depth)

\* C16: if a: x followed by elif b: y, and possibly else: z, parses to one If node whose
\* else branch is, or is a block of, an If with the condition b, as else: if b: y would;
\* the chain is one statement of the statement list.
C16_ElifIsElseIf ==
    \A withElse \in BOOLEAN, withNext \in BOOLEAN :
        (lexer.source_ = ElifSource(withElse, withNext)
         /\ pc \in {"parsed", "ParserException"})
            => /\ pc = "parsed"
               /\ Len(program.statements) = IF withNext THEN 2 ELSE 1
               /\ program.statements[1].k = "If"
               /\ LET else_block == program.statements[1].else_block
                      nested == IF else_block.k = "Block" /\ else_block.statements # <<>>
                                THEN else_block.statements[1] ELSE else_block
                  IN /\ nested.k = "If"
                     /\ nested.condition = IdentifierExpression(<<"b">>)
                     /\ withElse <=> nested.else_block.k # "null"

\* the token type of an operator as written
OperatorType(op) ==
    CASE op = <<"=">> -> "ASSIGN"
      [] op = <<"or">> -> "OR"
      [] op = <<"and">> -> "AND"
      [] op = <<"=", "=">> -> "EQUAL"
      [] op = <<"!", "=">> -> "NOT_EQUAL"
      [] op = <<"<">> -> "LESS"
      [] op = <<"<", "=">> -> "LESS_EQUAL"
      [] op = <<">">> -> "GREATER"
      [] op = <<">", "=">> -> "GREATER_EQUAL"
      [] op = <<"+">> -> "PLUS"
      [] op = <<"-">> -> "MINUS"
      [] op = <<"*">> -> "MULTIPLY"
      [] op = <<"/">> -> "DIVIDE"
      [] op = <<"%">> -> "MODULO"
      [] op = <<"/", "/">> -> "FLOOR_DIVIDE"
      [] op = <<"*", "*">> -> "POWER"
      [] op = <<"not", " ">> -> "NOT"

\* the level of a binary operator in the precedence table, lowest first
TableLevel(type) ==
    CASE type = "ASSIGN" -> 0
      [] type = "OR" -> 1
      [] type = "AND" -> 2
      [] type \in {"EQUAL", "NOT_EQUAL"} -> 3
      [] type \in {"LESS", "LESS_EQUAL", "GREATER", "GREATER_EQUAL"} -> 4
      [] type \in {"PLUS", "MINUS"} -> 5
      [] type \in {"MULTIPLY", "DIVIDE", "MODULO", "FLOOR_DIVIDE"} -> 6
      [] type = "POWER" -> 7
TableRightAssociative == {"ASSIGN", "POWER"}

\* the node of left op right
TableNode(left, type, right) ==
    IF type = "ASSIGN" THEN AssignmentExpression(left, right)
    ELSE BinaryExpression(left, type, right)

\* the shape the table gives a op1 b op2 c
TableChain(type1, type2) ==
    LET a == IdentifierExpression(<<"a">>)
        b == IdentifierExpression(<<"b">>)
        c == IdentifierExpression(<<"c">>)
    IN IF \/ TableLevel(type1) > TableLevel(type2)
          \/ TableLevel(type1) = TableLevel(type2) /\ type1 \notin TableRightAssociative
       THEN TableNode(TableNode(a, type1, b), type2, c)
       ELSE TableNode(a, type1, TableNode(b, type2, c))

\* the shape the table gives u a op b and a op u b: the prefix operator holds a or b only
TablePrefix(prefixType, type, onLeft) ==
    LET a == IdentifierExpression(<<"a">>)
        b == IdentifierExpression(<<"b">>)
    IN IF onLeft THEN TableNode(UnaryExpression(prefixType, a), type, b)
       ELSE TableNode(a, type, UnaryExpression(prefixType, b))

LineStarts(source) == {1} \cup {i + 1 : i \in {j \in 1..Len(source) : source[j] = "\n"}}
\* the index after the indentation of the line that starts at p
IndentEnd(source, p) ==
    CHOOSE q \in p..(Len(source) + 1) :
        /\ q = Len(source) + 1 \/ source[q] \notin {" ", "\t"}
        /\ \A i \in p..(q - 1) : source[i] \in {" ", "\t"}
\* the indentation width of the line: a space counts 1, a tab 8
IndentWidth(source, p) ==
    Cardinality({i \in p..(IndentEnd(source, p) - 1) : source[i] = " "})
    + 8 * Cardinality({i \in p..(IndentEnd(source, p) - 1) : source[i] = "\t"})
\* the line is neither blank nor a comment
Significant(source, p) ==
    /\ IndentEnd(source, p) <= Len(source)
    /\ source[IndentEnd(source, p)] \notin {"\n", "#"}
\* the entries of the indent stack when the line that starts at p is read: 0, and the
\* width of every earlier line that no line in between has closed
OpenIndents(source, p) ==
    {0} \cup {IndentWidth(source, j) :
                j \in {k \in LineStarts(source) :
                         /\ k < p
                         /\ Significant(source, k)
                         /\ \A m \in LineStarts(source) :
                               (k < m /\ m < p /\ Significant(source, m))
                                   => IndentWidth(source, m) >= IndentWidth(source, k)}}
\* the line that starts at p is narrower than the top of the stack and equal to no entry
Mismatched(source, p) ==
    /\ Significant(source, p)
    /\ IndentWidth(source, p) \notin OpenIndents(source, p)
    /\ \E open \in OpenIndents(source, p) : open > IndentWidth(source, p)
MismatchedLines(source) == {p \in LineStarts(source) : Mismatched(source, p)}
LineNumber(source, p) == 1 + Cardinality({i \in 1..(p - 1) : source[i] = "\n"})

\* C18: a source with a line, neither blank nor a comment, whose indentation is smaller
\* than the top of the indent stack and equal to no entry of it is never tokenized:
\* tokenize ends in a LexerException and returns no tokens; where the lines hold nothing
\* else the lexer rejects, the exception is raised on the first such line.
C18_MismatchedDedentIsAnError ==
    /\ (pc \notin {"tokenize", "LexerException"})
          => MismatchedLines(lexer.source_) = {}
    /\ (pc = "LexerException" /\ MismatchedLines(lexer.source_) # {})
          => /\ tokens = <<>>
             /\ lexer.source_ \in LineSources =>
                  \E p \in MismatchedLines(lexer.source_) :
                      /\ \A q \in MismatchedLines(lexer.source_) : p <= q
                      /\ lexer.position_.line = LineNumber(lexer.source_, p)
    /\ (pc = "LexerException" /\ lexer.source_ \in LineSources)
          => MismatchedLines(lexer.source_) # {}

\* the widths 0, 2, 1 have been read and the third line has raised the exception
C18_Witness ==
    /\ pc = "LexerException"
    /\ lexer.source_ = <<"a", "\n", " ", " ", "a", "\n", " ", "a">>
    /\ lexer.position_.line = 3
    /\ tokens = <<>>

\* the source has no line with code: it is empty, or every line is spaces and tabs only
\* or a comment
Blank(source) == \A p \in LineStarts(source) : ~Significant(source, p)

\* C22: the empty source, a source of only spaces, tabs and newlines, and a source of
\* only comment lines are tokenized without a diagnostic and parse to a Program with no
\* statement.
C22_BlankSourceIsEmptyProgram ==
    Blank(lexer.source_) =>
        /\ pc \notin {"LexerException", "ParserException"}
        /\ pc = "parsed" => program = Program(<<>>)
        /\ Tokenized => /\ tokens # <<>>
                        /\ \A i \in 1..Len(tokens) :
                              tokens[i].type \in {"NEWLINE", "EOF_TOKEN"}

\* the source of three comment lines behind spaces and tabs has been parsed
C22_Witness ==
    /\ pc = "parsed"
    /\ lexer.source_ = SrcCommentTabs
    /\ program.statements = <<>>

\* C28: in every state reached while lexing, the indent stack is not empty and its bottom
\* element is 0 (and the levels above it increase): no sequence of lines, dedents to
\* column 0 and mismatched dedents that raise included, pops the bottom element.
C28_IndentStackBottom ==
    /\ lexer.indent_stack_ # <<>>
    /\ lexer.indent_stack_[1] = 0
    /\ \A i \in 2..Len(lexer.indent_stack_) :
          lexer.indent_stack_[i - 1] < lexer.indent_stack_[i]

\* the widths 2 and 1 have been read: the second line popped the level 2, raised the
\* exception, and left the bottom element
C28_Witness ==
    /\ pc = "LexerException"
    /\ lexer.source_ = <<" ", " ", "a", "\n", " ", "a">>
    /\ lexer.indent_stack_ = <<0>>

\* the lexer is at the start of a line that is empty or a comment
AtBlankLine ==
    /\ pc = "tokenize"
    /\ lexer.at_line_start_
    /\ ~isAtEnd(lexer)
    /\ ~Significant(lexer.source_, lexer.current_ + 1)

\* at the start of every line the stack holds what the code lines before it opened
StackIsOfCodeLines ==
    (pc = "tokenize" /\ lexer.at_line_start_) =>
        {lexer.indent_stack_[i] : i \in 1..Len(lexer.indent_stack_)}
            = OpenIndents(lexer.source_, lexer.current_ + 1)

\* C29: a line that is empty, or whose first character after spaces and tabs is #, emits
\* no INDENT and no DEDENT and leaves the indent stack unchanged, whatever the width of
\* its leading whitespace; the next code line is compared against the stack as it was
\* before the line, that is, against the levels the code lines opened.
C29_BlankLineLeavesStack ==
    /\ [][AtBlankLine =>
            /\ lexer'.indent_stack_ = lexer.indent_stack_
            /\ pc' # "LexerException"
            /\ \A i \in (Len(tokens) + 1)..Len(tokens') :
                  tokens'[i].type \notin {"INDENT", "DEDENT"}]_vars
    /\ []StackIsOfCodeLines

\* after a code line of width 2 and a comment line of width 0 the stack still holds the
\* level 2 at the start of the third line
C29_Witness ==
    /\ pc = "tokenize"
    /\ lexer.source_ = <<" ", " ", "a", "\n", "#", "a", "\n", " ", " ", "a">>
    /\ lexer.at_line_start_
    /\ lexer.position_.line = 3
    /\ lexer.indent_stack_ = <<0, 2>>

\* C30: every token of the stream tokenize returns (and of the vector while it is
\* built) has line >= 1 and column >= 1, and the lines of consecutive tokens do not
\* decrease, the INDENT, DEDENT, NEWLINE and EOF tokens included.
C30_PositionsAreOrdered ==
    \A i \in 1..Len(tokens) :
        /\ tokens[i].position.line >= 1
        /\ tokens[i].position.column >= 1
        /\ i > 1 => tokens[i - 1].position.line <= tokens[i].position.line

\* a stream with INDENT, DEDENT, NEWLINE and EOF tokens over several lines has been
\* returned
C30_Witness ==
    /\ pc = "tokenized"
    /\ {"INDENT", "DEDENT", "NEWLINE", "EOF_TOKEN"}
          \subseteq {tokens[i].type : i \in 1..Len(tokens)}
    /\ Last(tokens).position.line >= 3

\* the tokens a successful parse has consumed: parse stops at the first EOF token
Consumed == SubSeq(tokens, 1, parse(NewParser(tokens)).P.current_)

\* the number of tokens of a type in a token sequence
TypeCount(toks, type) == Cardinality({i \in 1..Len(toks) : toks[i].type = type})

\* a ":" NEWLINE of the stream that is not followed by INDENT
HeaderWithoutIndent ==
    \E i \in 1..(Len(tokens) - 2) :
        /\ tokens[i].type = "COLON"
        /\ tokens[i + 1].type = "NEWLINE"
        /\ tokens[i + 2].type # "INDENT"

\* C31: when parse returns a Program, every block it opened by consuming an INDENT
\* was closed by consuming a DEDENT (INDENT is consumed only at the start of
\* blockStatement and DEDENT only at its end, so the two counts over the consumed
\* tokens are equal and no block was closed by the EOF token); and a stream with a
\* ":" NEWLINE that is not followed by INDENT ends in a ParserException.
C31_BlockIsIndentToDedent ==
    /\ pc = "parsed" =>
           TypeCount(Consumed, "INDENT") = TypeCount(Consumed, "DEDENT")
    /\ (pc \in {"parsed", "ParserException"} /\ HeaderWithoutIndent) =>
           pc = "ParserException"

\* C38: when the text toString printed for the Program of a well-formed source has
\* been tokenized and parsed, the second parse has returned a Program, and it is the
\* Program of the first parse.
C38_PrintedProgramParsesBack ==
    (driver.printed /\ pc \in {"parsed", "ParserException", "LexerException"})
        => /\ pc = "parsed"
           /\ program = driver.first

(***************************************************************************)
(* The interpreter: claims.                                                *)
(***************************************************************************)
Finished == pc \in {"returned", "uncaught"}

\* the indices of the inner loop that are printed in one run of it
InnerIndices(p) ==
    SelectSeq([j \in 1..p.B |-> j - 1],
              LAMBDA j : IF p.signal = BreakStatement THEN j < p.K ELSE j # p.K)

\* the lines the loops of LoopProgramOf(p) write from the outer index i on, when a
\* break or continue acts on the innermost loop that encloses it and on no other
RECURSIVE LoopLines(_, _)
LoopLines(p, i) ==
    IF i >= p.A THEN <<>>
    ELSE [n \in 1..Len(InnerIndices(p)) |-> Line(<<i, InnerIndices(p)[n]>>)]
         \o (IF i = 0 /\ p.outerSignal = BreakStatement THEN <<>>
             ELSE (IF i = 0 /\ p.outerSignal = ContinueStatement
                   THEN <<>> ELSE <<Line(<<10, i>>)>>)
                  \o LoopLines(p, i + 1))

\* C4: a break or continue in a loop body ends, or skips to the next iteration of, the
\* innermost enclosing while or for loop only: the outer loop goes on, and execution
\* continues with the statement after the loop.
C4_InnermostLoopOnly ==
    (pc # "interpret" /\ program \in LoopPrograms) =>
        \A p \in LoopParameters :
            program = LoopProgramOf(p) =>
                /\ pc = "returned"
                /\ interp.err = <<>>
                /\ interp.out = LoopLines(p, 0) \o <<Line(<<11>>)>>

\* C4: a run where the inner loop was left by a break in its second iteration and the
\* outer loop made its second iteration after that
C4_Witness ==
    /\ pc = "returned"
    /\ \E p \in LoopParameters :
        /\ program = LoopProgramOf(p)
        /\ p.signal = BreakStatement /\ p.K = 1 /\ p.B = 3 /\ p.A = 2
        /\ p.outerSignal = PassStatement
        /\ interp.out = <<Line(<<0, 0>>), Line(<<10, 0>>), Line(<<1, 0>>),
                          Line(<<10, 1>>), Line(<<11>>)>>

\* the value of the global variable name
Global(name) == interp.envs[1].variables[<<name>>]

\* the value the call of f in ReturnProgramOf(p) is to yield
Returned(p) == IF p.taken /\ ~p.bare THEN IntValue(p.V + 1) ELSE NoneValue

\* C5: a call of a user function yields v when the body executes return v, whatever the
\* nesting of that return inside if, while and for blocks, and no later statement of the
\* body executes; it yields None after a bare return and after a body that completes
\* without a return.
C5_CallYieldsReturnValue ==
    pc # "interpret" =>
        \A p \in ReturnParameters :
            program = ReturnProgramOf(p) =>
                /\ pc = "returned"
                /\ interp.err = <<>>
                /\ Global("r") = Returned(p)
                /\ interp.out = <<Line(<<1>>)>>
                                \o (IF p.taken THEN <<>> ELSE <<Line(<<2>>)>>)
                                \o <<valueToString(Returned(p))>>

\* C5: a run where return n + 1 was executed inside a for block inside a while block
C5_Witness ==
    /\ pc = "returned"
    /\ \E p \in ReturnParameters :
        /\ program = ReturnProgramOf(p)
        /\ p.nesting = <<"while", "for">> /\ p.taken /\ ~p.bare /\ p.V = 2
        /\ Global("r") = IntValue(3)
        /\ interp.out = <<Line(<<1>>), Line(<<3>>)>>

\* the parents of the Environment objects made so far, in the order they were made
Parents == [e \in 1..Len(interp.envs) |-> interp.envs[e].parent]

\* C6: the body of a user function runs in a fresh environment whose parent is the
\* environment in which the definition was executed, never the environment of the call
\* site: an inner function reads the locals of its defining function after that function
\* has returned, and a free variable is not resolved in the caller.  The environments of
\* ClosureProgram are 1 global, 2 make_counter, 3 caller, 4 inc, 5 h, 6 inc.
C6_ParentIsDefiningEnvironment ==
    pc # "interpret" =>
        \A p \in ClosureParameters :
            program = ClosureProgramOf(p) =>
                /\ pc = "returned"
                /\ interp.err = <<>>
                /\ interp.out = <<Line(<<p.L + 1>>), Line(<<p.G>>), Line(<<p.L + 1>>)>>
                /\ Parents = <<0, 1, 1, 2, 1, 2>>

\* C6: a run where the global, the local of make_counter and the local of the caller
\* differ, and inc, called from the caller, has read the local of make_counter
C6_Witness ==
    /\ pc = "returned"
    /\ program = ClosureProgram(0, 1, 2)
    /\ interp.out = <<Line(<<2>>), Line(<<0>>), Line(<<2>>)>>
    /\ interp.envs[4].parent = 2
    /\ interp.envs[3].variables[<<"n">>] = IntValue(2)

\* the call of ArityProgramOf(p) has too many actuals, or too few with a formal that no
\* actual covers and that has no default
ArityError(p) ==
    \/ p.actuals > Len(p.formals)
    \/ \E i \in (p.actuals + 1)..Len(p.formals) : ~p.formals[i]

\* C7: a call with fewer actuals than formals where an uncovered formal has no default,
\* or with more actuals than formals, fails with a runtime diagnostic, and no statement
\* of the body is executed.
C7_ArityErrorBeforeBody ==
    pc # "interpret" =>
        \A p \in ArityParameters :
            program = ArityProgramOf(p) /\ ArityError(p) =>
                /\ pc = "returned"
                /\ interp.err = <<"Runtime Error">>
                /\ interp.out = <<Line(<<0>>)>>

\* C7: a run that called f(p1, p2 = 5) without actuals and was stopped
C7_Witness ==
    /\ pc = "returned"
    /\ program = ArityProgram(<<FALSE, TRUE>>, 0)
    /\ interp.err = <<"Runtime Error">>
    /\ interp.out = <<Line(<<0>>)>>

\* the numbers DefaultProgramOf(p) is to print: the default is evaluated at each call
\* that omits the actual, once, in the environment the function captured
DefaultOutput(p) ==
    CASE p.kind = "literal" -> <<8, 7, 8, 8>>
      [] p.kind = "free" -> <<3 + p.G, 7, 4 + p.G, 4 + p.G>>
      [] p.kind = "formal" -> <<12, 7, 12, 12>>
      [] p.kind = "undefined" -> <<>>
      [] p.kind = "count" -> <<4 + p.G, 7, 6 + p.G, 7 + p.G>>

RECURSIVE Assigned(_)
Assigned(node) ==
    CASE node.k = "Assignment" ->
            (IF node.target.k = "Identifier" THEN {node.target.name} ELSE {})
            \cup Assigned(node.value)
      [] node.k = "Binary" -> Assigned(node.left) \cup Assigned(node.right)
      [] node.k = "Unary" -> Assigned(node.operand)
      [] node.k = "Call" ->
            Assigned(node.function)
            \cup UNION {Assigned(node.arguments[i]) : i \in 1..Len(node.arguments)}
      [] node.k = "ExpressionStatement" -> Assigned(node.expression)
      [] node.k = "Block" ->
            UNION {Assigned(node.statements[i]) : i \in 1..Len(node.statements)}
      [] node.k = "If" ->
            Assigned(node.condition) \cup Assigned(node.then_block)
            \cup Assigned(node.else_block)
      [] node.k = "While" -> Assigned(node.condition) \cup Assigned(node.body)
      [] node.k = "For" ->
            {node.variable} \cup Assigned(node.iterable) \cup Assigned(node.body)
      [] node.k = "FunctionDefinition" -> {node.name}
      [] node.k = "Return" -> Assigned(node.value)
      [] OTHER -> {}

\* the statement the next step of the loop of visit(Program&) executes
Current == program.statements[interp.next]

\* the binding of name in the Environment e is the same before and after the step
SameBinding(e, name) ==
    /\ name \in DOMAIN interp'.envs[e].variables
    /\ interp'.envs[e].variables[name] = interp.envs[e].variables[name]

\* C9: an assignment x = E creates or overwrites the binding of x in the environment
\* that is current when it executes, and leaves the bindings of every other environment
\* as they are: the assignments in the body of a function a statement calls change no
\* binding of the global environment or of the environment of an enclosing function,
\* and a statement x = E of the top level binds x in the global environment to the
\* value of E.  (Programs whose default values are assignments are left out: a default
\* value is evaluated with the captured environment as the current one.)
C9_AssignmentWritesCurrentOnly ==
    [][(pc = "interpret" /\ pc' = "interpret" /\ program \notin DefaultPrograms) =>
        /\ \A e \in 1..Len(interp.envs) :
            /\ interp'.envs[e].parent = interp.envs[e].parent
            /\ \A name \in DOMAIN interp.envs[e].variables :
                e # interp.environment \/ name \notin Assigned(Current)
                    => SameBinding(e, name)
        /\ (Current.k = "ExpressionStatement" /\ Current.expression.k = "Assignment"
            /\ interp'.exc.type = "none")
                => interp'.envs[interp.environment].variables[Current.expression.target.name]
                        = interp'.last_value
      ]_vars

\* C9: a run where inner assigned x while the global x and the x of outer, its enclosing
\* function, were bound: the three bindings are apart
C9_Witness ==
    /\ pc = "returned"
    /\ program = FrameProgram(0, 1, 2)
    /\ Global("x") = IntValue(0)
    /\ interp.envs[2].variables[<<"x">>] = IntValue(1)
    /\ interp.envs[3].variables[<<"x">>] = IntValue(2)
    /\ interp.envs[3].parent = 2
    /\ interp.out = <<Line(<<0, 2>>)>>

\* the values of Expressions where y is 4
ExpressionValues ==
    <<IntValue(3), IntValue(5), BoolValue(TRUE), StrValue(<<"a">>),
      StrValue(<<"__builtin_", "len">>), FloatValue(1, 2), IntValue(0 - 2),
      StrValue(<<"a", "b">>)>>

\* interpret returned the value of E for the program x = E; x with the parameters p
ReadsAssigned(p) ==
    program = AssignProgramOf(p) /\ pc # "interpret" =>
        /\ pc = "returned"
        /\ interp.err = <<>>
        /\ interp.result = ExpressionValues[p.E]

\* C10, as stated: for every identifier x and every expression E without side effects,
\* evaluating x = E and then x in the same environment gives the value of E.
C10_AssignThenRead == \A p \in AssignParameters : ReadsAssigned(p)

\* C10, amended: the same for every identifier x that is not the name of a built-in
\* function (an identifier that names a built-in evaluates to the built-in, whatever
\* was assigned to it).
C10_AssignThenReadUserName ==
    \A p \in AssignParameters : <<p.name>> \notin BuiltinNames => ReadsAssigned(p)

\* C10: a run where y, bound to 4, was assigned y + 1 in a function and read as 5
C10_Witness ==
    /\ pc = "returned"
    /\ program = AssignProgram("y", 2, TRUE)
    /\ interp.result = IntValue(5)
    /\ interp.envs[2].variables[<<"y">>] = IntValue(5)

\* the truthiness of the value of Operand(kind, side)
OperandTruthy(kind, side) ==
    CASE kind \in {"two", "string", "assign"} -> TRUE
      [] kind \in {"zero", "print"} -> FALSE
      [] kind = "less" -> side < 2

\* the lines the two operands of LogicProgramOf(p) write, when both are evaluated, the
\* left one first, and the evaluation stops at a variable that is not defined
OperandLines(p) ==
    (IF p.left = "print" THEN <<Line(<<1>>)>> ELSE <<>>)
    \o (IF p.right = "print" /\ p.left # "undefined" THEN <<Line(<<2>>)>> ELSE <<>>)

\* the value L and R, L or R is to have
LogicValue(p) ==
    BoolValue(IF p.op = "AND"
              THEN OperandTruthy(p.left, 1) /\ OperandTruthy(p.right, 2)
              ELSE OperandTruthy(p.left, 1) \/ OperandTruthy(p.right, 2))

\* C11: for a and b, and for a or b, both operands are evaluated, the left one first,
\* whatever the truthiness of the left operand: what the right operand writes, binds or
\* reports is observed even when the left operand decides the result; and the result is
\* the Bool truthy(a) and truthy(b), or truthy(a) or truthy(b).
C11_BothOperandsEvaluated ==
    pc # "interpret" =>
        \A p \in LogicParameters :
            program = LogicProgramOf(p) =>
                /\ pc = "returned"
                /\ IF "undefined" \in {p.left, p.right}
                   THEN /\ interp.err = <<"Runtime Error">>
                        /\ interp.out = OperandLines(p)
                   ELSE /\ interp.err = <<>>
                        /\ Global("r") = LogicValue(p)
                        /\ interp.out = OperandLines(p) \o <<valueToString(LogicValue(p))>>
                /\ (p.right = "assign" /\ p.left # "undefined")
                        => Global("k") = IntValue(2)

\* C11: a run of r = 0 and print(2): the left operand is falsy, and the right one wrote
C11_Witness ==
    /\ pc = "returned"
    /\ program = LogicProgram("AND", "zero", "print")
    /\ interp.out = <<Line(<<2>>), <<"False">>>>
    /\ Global("r") = BoolValue(FALSE)

\* C12: a literal whose token kind is Boolean evaluates to the Bool value its lexeme
\* names, so that False is falsy: if False: runs the else branch, or nothing, and never
\* the then branch.
C12_BooleanLiteralIsBool ==
    pc # "interpret" =>
        \A p \in BooleanParameters :
            program = BooleanProgramOf(p) =>
                /\ pc = "returned"
                /\ Global("r") = BoolValue(p.lexeme = "True")
                /\ interp.out = IF p.lexeme = "True" THEN <<Line(<<1>>)>>
                                ELSE IF p.withElse THEN <<Line(<<2>>)>> ELSE <<>>

\* the values of Numbers
NumberValues ==
    <<IntValue(6), FloatValue(15, 10), IntValue(0), FloatValue(0, 10), IntValue(3),
      FloatValue(5, 10)>>

\* DivisionProgramOf(p) divides by zero: l / 0 or l % 0 on two integers, l / 0 on numbers
\* of which one is a float
DividesByZero(p) ==
    /\ NumberValues[p.right] \in {IntValue(0), FloatValue(0, 10)}
    /\ \/ p.op = "DIVIDE"
       \/ NumberValues[p.left].t = "Int" /\ NumberValues[p.right].t = "Int"

\* C13: l / r and l % r on two integers with r = 0, and l / r on numbers of which at
\* least one is a float with r = 0, raise a runtime diagnostic and produce no value;
\* both operands have been evaluated before the diagnostic is raised.
C13_DivisionByZero ==
    pc # "interpret" =>
        \A p \in DivisionParameters :
            program = DivisionProgramOf(p) /\ DividesByZero(p) =>
                /\ pc = "returned"
                /\ interp.err = <<"Runtime Error">>
                /\ <<"r">> \notin DOMAIN interp.envs[1].variables
                /\ Global("a") = NumberValues[p.left]
                /\ Global("b") = NumberValues[p.right]

\* C13: a run of r = (a = 6) / (b = 0)
C13_Witness ==
    /\ pc = "returned"
    /\ program = DivisionProgram("DIVIDE", 1, 3)
    /\ interp.err = <<"Runtime Error">>
    /\ Global("b") = IntValue(0)
    /\ <<"r">> \notin DOMAIN interp.envs[1].variables

RangeLines(start, stop, step) ==
    [k \in 1..(IF start >= stop THEN 0 ELSE (stop - start + step - 1) \div step) |->
        Line(<<start + (k - 1) * step>>)]

\* C20: for v in range(start, stop, step) with integer arguments and step >= 1 runs its
\* body once for each i = start, start + step, ... below stop, in increasing order, with v
\* bound to i before each run of the body, also when the body rebinds v, and then ends;
\* range(stop) is range(0, stop, 1) and range(start, stop) is range(start, stop, 1).
C20_RangeLoop ==
    pc # "interpret" =>
        \A p \in RangeParameters :
            program = RangeProgramOf(p) =>
                LET n == Len(p.arguments)
                    start == IF n = 1 THEN 0 ELSE p.arguments[1]
                    stop == IF n = 1 THEN p.arguments[1] ELSE p.arguments[2]
                    step == IF n = 3 THEN p.arguments[3] ELSE 1
                IN /\ pc = "returned"
                   /\ interp.err = <<>>
                   /\ interp.out = RangeLines(start, stop, step) \o <<Line(<<9>>)>>

\* C21: calling a value that is neither a user function nor a built-in (None, a Bool, an
\* integer, a float, or a string of any contents) raises the runtime diagnostic and
\* invokes no function: nothing is written by the call and the run ends there (print(),
\* the expression that yields None, writes its empty line where it is evaluated).
C21_NotCallable ==
    pc # "interpret" =>
        \A p \in CalleeParameters :
            program = CalleeProgramOf(p) =>
                /\ pc = "returned"
                /\ interp.err = <<"Runtime Error">>
                /\ interp.out = CASE p.kind # "None" -> <<Line(<<1>>)>>
                                   [] p.kind = "None" /\ p.direct -> <<Line(<<1>>), <<>>>>
                                   [] OTHER -> <<<<>>, Line(<<1>>)>>

\* a lexer, parser or interpreter diagnostic occurred during the run of the driver
Diagnosed ==
    \/ pc \in {"LexerException", "ParserException", "uncaught"}
    \/ pc = "returned" /\ interp.err # <<>>

\* C23: the exit code of the driver is 1 whenever a lexer, parser or interpreter
\* diagnostic occurred during the run, a runtime diagnostic raised while interpreting
\* included, and 0 only when the run completed with no diagnostic.
C23_ExitCodeTellsDiagnostic ==
    driver.exit_code # Running => (driver.exit_code = 1 <=> Diagnosed)

\* C24: not e yields the value of e unchanged for every arm of e, an integer included
\* (not 3 is 3), while -e negates an integer and leaves every other arm unchanged.
C24_NotLeavesOperand ==
    pc # "interpret" =>
        \A p \in UnaryParameters :
            program = UnaryProgramOf(p) =>
                /\ pc = "returned"
                /\ interp.err = <<>>
                /\ Global("r") = IF p.op = "MINUS" /\ Global("e").t = "Int"
                                 THEN IntValue(0 - Global("e").v)
                                 ELSE Global("e")

\* C25: a for over range(start, stop, step) with step < 0 runs its body zero times and
\* ends, whatever start and stop are, start < stop included.
C25_NegativeStepIsEmpty ==
    pc # "interpret" =>
        \A p \in DescendingParameters :
            program = DescendingProgramOf(p) =>
                /\ pc = "returned"
                /\ interp.err = <<>>
                /\ interp.out = <<Line(<<9>>)>>

\* C26: a for whose iterable is anything other than a value returned by range (None, a
\* Bool, an integer, a float, a string of any contents, the stub of a list) runs its body
\* zero times and leaves every binding as it was, the loop variable included.
C26_OtherIterableIsNoOp ==
    pc # "interpret" =>
        \A p \in IterableParameters :
            program = IterableProgramOf(p) =>
                /\ pc = "returned"
                /\ interp.err = <<>>
                /\ interp.out = IF p.kind = "None" THEN <<<<>>>> ELSE <<>>
                /\ Global("k") = IntValue(1)
                /\ IF p.bound THEN Global("v") = IntValue(7)
                   ELSE <<"v">> \notin DOMAIN interp.envs[1].variables

\* C27: an identifier whose name is a registered built-in (print, range, len, str, int,
\* float, type, abs) evaluates to the built-in whatever the environments hold: after an
\* assignment or a def of the name, as a local or a parameter of a function, and where no
\* environment binds the name.
C27_BuiltinNameYieldsBuiltin ==
    pc # "interpret" =>
        \A p \in BuiltinParameters :
            program = BuiltinProgramOf(p) =>
                /\ pc = "returned"
                /\ interp.err = <<>>
                /\ Global("r") = StrValue(<<"__builtin_", p.name>>)
                /\ p.binding = "assign" => Global(p.name) = IntValue(3)
                /\ p.binding = "def" => Global(p.name).t = "Function"
                /\ p.binding \in {"none", "local", "parameter"}
                      => <<p.name>> \notin DOMAIN interp.envs[1].variables

\* len = 3 has bound len to 3 in the global environment and r = len has bound r to the
\* built-in
C27_Witness ==
    /\ pc = "returned"
    /\ program = BuiltinProgram("len", "assign")
    /\ Global("len") = IntValue(3)
    /\ Global("r") = StrValue(<<"__builtin_", "len">>)

\* C32: a RuntimeError in flight after a statement of the program ends the run in the
\* next step: interpret reports it and returns, no statement runs, and the bindings and
\* the output stay as they were; and for a diagnostic raised at the top level, in an if
\* block, in a while or for loop, in a function, in a function called from a loop or
\* in a default value, the statements that follow it in the block, in the loop, in the
\* function and in the program have not run, and b, bound before it, is still 1.
C32_DiagnosticEndsRun ==
    /\ [][interp.exc.type = "RuntimeError" =>
            /\ pc' = "returned"
            /\ interp'.envs = interp.envs
            /\ interp'.out = interp.out
            /\ interp'.next = interp.next
            /\ interp'.err = Append(interp.err, "Runtime Error")]_vars
    /\ [](pc # "interpret" =>
            \A p \in DiagnosticParameters :
                program = DiagnosticProgramOf(p) =>
                    /\ pc = "returned"
                    /\ interp.err = <<"Runtime Error">>
                    /\ interp.out = <<Line(<<1>>)>>
                            \o (IF p.site \in {"top", "default"} THEN <<>>
                                ELSE <<Line(<<3>>)>>)
                    /\ Global("b") = IntValue(1)
                    /\ \A e \in 1..Len(interp.envs) :
                          /\ <<"c">> \notin DOMAIN interp.envs[e].variables
                          /\ <<"d">> \notin DOMAIN interp.envs[e].variables)

\* C32: the run where g, called from the while loop, raised the diagnostic after
\* printing 3, has returned
C32_Witness ==
    /\ pc = "returned"
    /\ program = DiagnosticProgram("undefined", "loopcall")
    /\ interp.err = <<"Runtime Error">>
    /\ interp.out = <<Line(<<1>>), Line(<<3>>)>>
    /\ Global("b") = IntValue(1)

\* whether the sequence s is a prefix of the sequence t
IsPrefix(s, t) == Len(s) <= Len(t) /\ SubSeq(t, 1, Len(s)) = s

\* the lines the effects of an Order program write, in the order of the claim
OrderLines(shape) ==
    CASE shape = "binary" -> <<Line(<<1>>), Line(<<2>>)>>
      [] shape = "nested" -> <<Line(<<1>>), Line(<<2>>), Line(<<3>>), Line(<<4>>)>>
      [] shape \in {"readThenBind", "bindThenRead"} -> <<>>
      [] shape = "arguments" -> <<Line(<<1>>), Line(<<2>>), Line(<<3>>), Line(<<0>>)>>
      [] shape = "callee" ->
            <<Line(<<7>>), Line(<<1>>), Line(<<2>>), Line(<<3>>), Line(<<0>>)>>
      [] shape = "calleeRebound" -> <<Line(<<8>>), Line(<<9>>)>>
      [] shape = "print" -> <<Line(<<1>>), Line(<<2>>), Line(<<3>>)>>
      [] shape = "block" -> <<Line(<<1>>), Line(<<2>>), Line(<<3>>)>>

\* C33: the statements of the program run one after the other in source order, each
\* adding its output behind the output so far; and in the Order programs the left
\* operand's effects come before the right operand's (x + (x = 5) is 6 and
\* (x = 5) + x is 10), the callee is evaluated before the arguments (pick() prints
\* first, and g(g = h) calls the first g), the arguments from left to right, all
\* before the body of the callee, and the statements of a block in source order.
C33_EvaluationOrder ==
    /\ [][(pc = "interpret" /\ pc' = "interpret") =>
            /\ interp'.next = interp.next + 1
            /\ IsPrefix(interp.out, interp'.out)]_vars
    /\ [](pc # "interpret" =>
            \A p \in OrderParameters :
                program = OrderProgramOf(p) =>
                    /\ pc = "returned"
                    /\ interp.err = <<>>
                    /\ IsPrefix(OrderLines(p.shape), interp.out)
                    /\ p.shape # "print" => interp.out = OrderLines(p.shape)
                    /\ p.shape = "print" => Len(interp.out) = 4
                    /\ p.shape = "readThenBind" =>
                          Global("r") = IntValue(6) /\ Global("x") = IntValue(5)
                    /\ p.shape = "bindThenRead" =>
                          Global("r") = IntValue(10) /\ Global("x") = IntValue(5)
                    /\ p.shape = "block" => Global("x") = IntValue(3))

\* C33: the run of pick()(t(1), t(2), t(3)) has printed 7, 1, 2, 3, 0
C33_Witness ==
    /\ pc = "returned"
    /\ program = OrderProgram("callee", "PLUS")
    /\ interp.out = <<Line(<<7>>), Line(<<1>>), Line(<<2>>), Line(<<3>>), Line(<<0>>)>>

\* C34: when the driver, run with --interpret on a source whose top level executes a
\* return, has ended, interpret had returned normally: no exception left it, nothing
\* was reported on std::cerr, and the exit code is 0.
C34_TopLevelReturnIsNormal ==
    (/\ driver.exit_code # Running
     /\ driver.interpret /\ ~driver.show_tokens /\ ~driver.show_parse
     /\ lexer.source_ \in TopReturnSources)
        => /\ pc = "returned"
           /\ interp.exc.type = "none"
           /\ interp.err = <<>>
           /\ driver.exit_code = 0

\* the environments on the chain of parent links from env, env included
RECURSIVE Chain(_, _)
Chain(envs, env) == IF env = 0 THEN <<>> ELSE <<env>> \o Chain(envs, envs[env].parent)

\* C35: in every state the global environment has no parent and every other
\* environment's parent is an environment created before it, so every chain of parent
\* links is finite, without repetition, and ends at the global environment; and no step
\* removes an environment or changes the parent link of one.
C35_ParentLinksAcyclic ==
    /\ [](/\ interp.envs[1].parent = 0
          /\ \A e \in 2..Len(interp.envs) : interp.envs[e].parent \in 1..(e - 1)
          /\ interp.environment \in 1..Len(interp.envs)
          /\ \A e \in 1..Len(interp.envs) :
                LET chain == Chain(interp.envs, e) IN
                /\ chain[Len(chain)] = 1
                /\ \A i, j \in 1..Len(chain) : chain[i] = chain[j] => i = j)
    /\ [][/\ Len(interp'.envs) >= Len(interp.envs)
          /\ \A e \in 1..Len(interp.envs) :
                interp'.envs[e].parent = interp.envs[e].parent]_vars

\* C35: a run has ended in which calls made environments whose parent is the
\* environment of another call, and a default value was evaluated
C35_Witness ==
    /\ pc = "returned"
    /\ program \in DefaultPrograms \cup FramePrograms \cup ClosurePrograms
    /\ \E e \in 3..Len(interp.envs) :
          /\ interp.envs[e].parent >= 2
          /\ Len(Chain(interp.envs, e)) = 3

\* C36: for two integers a and b each of the six comparisons yields a Bool, and
\* a == b is the negation of a != b, a == b holds exactly when neither a < b nor
\* a > b holds, and a <= b is the negation of a > b.
C36_ComparisonsConsistent ==
    pc # "interpret" =>
        \A p \in CompareParameters :
            program = CompareProgramOf(p) =>
                /\ pc = "returned"
                /\ interp.err = <<>>
                /\ Global("a") = IntValue(p.a) /\ Global("b") = IntValue(p.b)
                /\ \A name \in {"eq", "ne", "lt", "le", "gt", "ge"} :
                      Global(name).t = "Bool"
                /\ Global("eq").v <=> ~Global("ne").v
                /\ Global("eq").v <=> (~Global("lt").v /\ ~Global("gt").v)
                /\ Global("le").v <=> ~Global("gt").v

\* C36: the runs on two equal integers and on a smaller and a larger one have ended
C36_Witness ==
    /\ pc = "returned"
    /\ program \in {CompareProgram(2, 2), CompareProgram(0 - 2, 1)}
    /\ Global("le") = BoolValue(TRUE)
    /\ Global("ge").t = "Bool"

\* the outcome the claim gives for abs on the operand of parameter p
AbsAsClaimed(p) ==
    /\ pc = "returned"
    /\ CASE p.kind = "Int" ->
                /\ interp.err = <<>>
                /\ Global("x") = IntValue(p.x)
                /\ Global("r") = IntValue(IF p.x < 0 THEN 0 - p.x ELSE p.x)
                /\ Global("r").v >= 0
         [] p.kind \in AbsFloats ->
                /\ interp.err = <<>>
                /\ Global("r") = FloatValue(15, 10)
         [] OTHER ->
                /\ interp.err = <<"Runtime Error">>
                /\ <<"r">> \notin DOMAIN interp.envs[1].variables

\* C37: r = abs(x) binds r to the magnitude of x, which is not negative, for every
\* integer x from the smallest to the largest, the smallest being reached by
\* -MaxInt - 1; abs of a float is its magnitude; abs of None, a Bool, a String or a
\* function, and abs with no or two arguments, raise a runtime diagnostic.
C37_AbsIsMagnitude ==
    pc # "interpret" =>
        \A p \in AbsParameters : program = AbsProgramOf(p) => AbsAsClaimed(p)

====
